---------------------------- MODULE Spec2Model ----------------------------
(***************************************************************************)
(* Model of the mini-admin-panel backend core:                             *)
(*   - CryptoService  (utils/crypto.js,   src/unnamed/part_006)            *)
(*   - ProtobufService (utils/protobuf.js, src/unnamed/part_005:58-421)    *)
(*                                                                         *)
(* JavaScript values are records [t |-> type tag, v |-> sequence of        *)
(* one-token strings], so that any two values can be compared.  A string   *)
(* is the sequence of its characters.                                      *)
(***************************************************************************)
EXTENDS Integers, Sequences, FiniteSets, TLC

VARIABLES
  \* ---- CryptoService (part_006:17-25) and the key directory on disk
  privateKey,     \* this.privateKey : Null or PEM text
  publicKey,      \* this.publicKey  : Null or PEM text
  keyDir,         \* does the keys directory exist
  privFile,       \* contents of keys/private.pem, or Absent
  pubFile,        \* contents of keys/public.pem, or Absent
  generated,      \* number of key pairs generated so far (names the next fresh pair)
  keysInit,       \* outcome of the last initializeKeys run: "none", "ok", "failed"
  initRuns,       \* number of initializeKeys runs so far
  cryptoCall,     \* the last CryptoService call: operation, arguments, outcome
  hashPrev,       \* the hashEmail call before the last one (or NoCall)
  \* ---- ProtobufService (part_005:74-83)
  UserMessage,            \* this.UserMessage : Null or the user.User type
  UserCollectionMessage,  \* this.UserCollectionMessage : Null or the type
  isInitialized,          \* this.isInitialized
  ctorLoad,       \* the initializeProtobuf run the constructor started is in flight
  initCount,      \* number of initializeProtobuf runs started so far
  pbPending,      \* serialize calls that await their own initializeProtobuf run
  pbCall,         \* the last completed ProtobufService call
  pbPrev,         \* the call whose result was the argument of pbCall (or NoCall)
  \* ---- UserService, User model and the users table (app.js:422-898, models/User.js)
  usersTable,     \* the users table: id |-> row
  nextId,         \* number of the next id gen_random_uuid() hands out
  usPending,      \* user-service calls suspended at an await on the store
  usCall,         \* the last completed user request: operation, arguments, result, HTTP status
  \* ---- DatabaseService (app.js:275-419)
  pool,           \* this.pool : Null or the Pool object created last
  isConnected,    \* this.isConnected
  pools,          \* number of Pool objects created so far
  checkedOut,     \* number of clients acquired from a pool and not released
  dbPending,      \* DatabaseService calls suspended at an await
  dbCall,         \* the last completed DatabaseService call
  lastSettled,    \* which of connect / disconnect completed successfully last ("none" at first)
  \* ---- the server process (server.js, part_005:1-56)
  server,         \* "idle", "starting", "listening", "closing" or "exited"
  exitCode,       \* the code process.exit was called with (-1 while running)
  timers,         \* number of force-shutdown timers armed
  openConns       \* connections the HTTP server holds open

cryptoVars == <<privateKey, publicKey, keyDir, privFile, pubFile, generated,
                keysInit, initRuns, cryptoCall, hashPrev>>
keyState == <<privateKey, publicKey, keyDir, privFile, pubFile, generated,
              keysInit, initRuns>>

protoVars == <<UserMessage, UserCollectionMessage, isInitialized, ctorLoad,
               initCount, pbPending, pbCall, pbPrev>>
schemaState == <<UserMessage, UserCollectionMessage, isInitialized>>

userVars == <<usersTable, nextId, usPending, usCall>>

dbVars == <<pool, isConnected, pools, checkedOut, dbPending, dbCall, lastSettled>>
serverVars == <<server, exitCode, timers, openConns>>
svcVars == <<dbVars, serverVars>>

vars == <<cryptoVars, protoVars, userVars, svcVars>>

-----------------------------------------------------------------------------
(* Bounds of the model *)

\* longest e-mail string drawn as an input of hashEmail in SpecHash
MaxLen == 3
\* how many key pairs generateNewKeys may create in one behaviour
MaxKeys == 2
\* how many times initializeKeys may run in one behaviour
MaxInitRuns == 3

-----------------------------------------------------------------------------
(* JavaScript values *)

Str(s)    == [t |-> "string", v |-> s]
Null      == [t |-> "null", v |-> <<>>]
Undefined == [t |-> "undefined", v |-> <<>>]
Num(n)    == [t |-> "number", v |-> <<n>>]
Bool(b)   == [t |-> "boolean", v |-> <<IF b THEN "true" ELSE "false">>]
JsError(m) == [t |-> "error", v |-> <<m>>]
Absent    == [t |-> "absent", v |-> <<>>]

IsString(x) == x.t = "string"

\* ToBoolean: undefined, null, "", 0, NaN and false are falsy
Truthy(x) ==
  CASE x.t \in {"undefined", "null", "absent"} -> FALSE
    [] x.t = "string"  -> x.v # <<>>
    [] x.t = "number"  -> x.v \notin {<<"0">>, <<"NaN">>}
    [] x.t = "boolean" -> x.v = <<"true">>
    [] OTHER -> TRUE

\* the outcome of a call: a returned value or a thrown error
Return(x) == [kind |-> "return", val |-> x]
Throw(m)  == [kind |-> "throw", val |-> JsError(m)]

NoCall == [op |-> "none", args |-> <<>>, res |-> Return(Undefined)]

-----------------------------------------------------------------------------
(* String primitives used by hashEmail *)

Alphabet == {"a", "A", " "}

IsWhitespace(c) == c = " "

LowerChar(c) == IF c = "A" THEN "a" ELSE c

\* String.prototype.toLowerCase
ToLowerCase(s) == [i \in 1..Len(s) |-> LowerChar(s[i])]

SetMin(S) == CHOOSE x \in S : \A y \in S : x <= y
SetMax(S) == CHOOSE x \in S : \A y \in S : x >= y

\* String.prototype.trim: drops leading and trailing whitespace
Trim(s) ==
  LET idx == {i \in 1..Len(s) : ~IsWhitespace(s[i])}
  IN  IF idx = {} THEN <<>> ELSE SubSeq(s, SetMin(idx), SetMax(idx))

\* crypto.createHash('sha384').update(s).digest('hex'): an ideal hash, a
\* non-empty hex text that determines its input
Sha384Hex(s) == <<"sha384:">> \o s


-----------------------------------------------------------------------------
(* Key material.  A PEM text names its kind and the pair it belongs to.    *)

PrivatePem(k) == Str(<<"PRIVATE KEY", ToString(k)>>)
PublicPem(k)  == Str(<<"PUBLIC KEY", ToString(k)>>)

\* the two texts are the halves of one generated pair
IsKeyPair(priv, pub) ==
  /\ IsString(priv) /\ IsString(pub)
  /\ Len(priv.v) = 2 /\ Len(pub.v) = 2
  /\ priv.v[1] = "PRIVATE KEY" /\ pub.v[1] = "PUBLIC KEY"
  /\ priv.v[2] = pub.v[2]

\* crypto.createSign('RSA-SHA256').update(msg).sign(key, 'hex'): an ideal
\* deterministic signature, a hex text that names the signing pair and the
\* signed message
RsaSha256Sign(key, msg) == Str(<<"sig", key.v[2]>> \o msg.v)

\* crypto.createVerify('RSA-SHA256').update(msg).verify(key, sig, 'hex'):
\* true exactly for the signature the matching private key issues for msg;
\* any other hex text (malformed, other key, other message) verifies false
RsaSha256Verify(key, msg, sig) ==
  /\ Len(sig.v) >= 2
  /\ sig.v[1] = "sig"
  /\ sig.v[2] = key.v[2]
  /\ SubSeq(sig.v, 3, Len(sig.v)) = msg.v

existsSync(file) == file # Absent

-----------------------------------------------------------------------------
(* CryptoService methods as functions of the instance state *)

\* faulty variant: the input is lower-cased but not trimmed
hashEmail_noTrim(email) ==
  IF ~Truthy(email) \/ ~IsString(email)
  THEN Throw("Email must be a non-empty string")
  ELSE Return(Str(Sha384Hex(ToLowerCase(email.v))))

\* faulty variant: only the type of the input is checked
hashEmail_noEmptyCheck(email) ==
  IF ~IsString(email)
  THEN Throw("Email must be a non-empty string")
  ELSE Return(Str(Sha384Hex(Trim(ToLowerCase(email.v)))))

hashEmail(email) ==
  IF ~Truthy(email) \/ ~IsString(email)
  THEN Throw("Email must be a non-empty string")
  ELSE Return(Str(Sha384Hex(Trim(ToLowerCase(email.v)))))

\* faulty variant: sign.update(emailHash) is left out
signHash_fixedMessage(emailHash) ==
  IF ~Truthy(emailHash) \/ ~IsString(emailHash)
  THEN Throw("Email hash must be a non-empty string")
  ELSE IF ~Truthy(privateKey)
  THEN Throw("Private key not available for signing")
  ELSE Return(RsaSha256Sign(privateKey, Str(<<>>)))

signHash(emailHash) ==
  IF ~Truthy(emailHash) \/ ~IsString(emailHash)
  THEN Throw("Email hash must be a non-empty string")
  ELSE IF ~Truthy(privateKey)
  THEN Throw("Private key not available for signing")
  ELSE Return(RsaSha256Sign(privateKey, emailHash))

\* the try block of verifySignature (part_006:191-209)
\* faulty variant: the digest is not bound into the verification
verifySignatureTry_anyMessage(emailHash, signature) ==
  IF ~Truthy(emailHash) \/ ~Truthy(signature)
  THEN Throw("Email hash and signature are required")
  ELSE IF ~Truthy(publicKey)
  THEN Throw("Public key not available for verification")
  ELSE IF ~IsString(signature)
  THEN Throw("ERR_INVALID_ARG_TYPE")
  ELSE Return(Bool(RsaSha256Verify(publicKey,
                     Str(SubSeq(signature.v, 3, Len(signature.v))), signature)))

verifySignatureTry(emailHash, signature) ==
  IF ~Truthy(emailHash) \/ ~Truthy(signature)
  THEN Throw("Email hash and signature are required")
  ELSE IF ~Truthy(publicKey)
  THEN Throw("Public key not available for verification")
  ELSE IF ~IsString(emailHash)        \* verify.update(emailHash) rejects it
  THEN Throw("ERR_INVALID_ARG_TYPE")
  ELSE IF ~IsString(signature)        \* verify.verify(.., signature, 'hex') rejects it
  THEN Throw("ERR_INVALID_ARG_TYPE")
  ELSE Return(Bool(RsaSha256Verify(publicKey, emailHash, signature)))

\* faulty variant: the catch clause rethrows, as the other methods do
verifySignature_rethrow(emailHash, signature) ==
  verifySignatureTry(emailHash, signature)

\* verifySignature: the catch clause turns every error into false
verifySignature(emailHash, signature) ==
  LET r == verifySignatureTry(emailHash, signature)
  IN  IF r.kind = "throw" THEN Return(Bool(FALSE)) ELSE r

getPublicKey ==
  IF ~Truthy(publicKey) THEN Throw("Public key not available")
  ELSE Return(publicKey)

\* faulty variant: a signing failure yields the digest without a signature
processUserEmail_partial(email) ==
  LET h == hashEmail(email) IN
  IF h.kind = "throw" THEN h
  ELSE LET s == signHash(h.val) IN
       Return([t |-> "object", v |-> <<>>,
               emailHash |-> h.val,
               signature |-> IF s.kind = "throw" THEN Undefined ELSE s.val])

processUserEmail(email) ==
  LET h == hashEmail(email) IN
  IF h.kind = "throw" THEN h
  ELSE LET s == signHash(h.val) IN
       IF s.kind = "throw" THEN s
       ELSE Return([t |-> "object", v |-> <<>>,
                    emailHash |-> h.val, signature |-> s.val])

getStats ==
  Return([t |-> "object", v |-> <<>>,
          hasPrivateKey |-> Truthy(privateKey),
          hasPublicKey |-> Truthy(publicKey)])

-----------------------------------------------------------------------------
(* CryptoService: key lifecycle.  The fs calls are synchronous, so one run  *)
(* of initializeKeys is one step.  fault names the fs call that fails in    *)
(* this run ("none": no call fails).                                        *)

\* remember the call, and keep the previous hashEmail call beside it
Record(call) ==
  /\ cryptoCall' = call
  /\ hashPrev' = IF cryptoCall.op = "hashEmail" THEN cryptoCall ELSE hashPrev

\* loadExistingKeys: two reads, each assigned as soon as it is read
loadExistingKeys(fault) ==
  /\ fault \in {"none", "readPrivate", "readPublic"}
  /\ privateKey' = IF fault = "readPrivate" THEN privateKey ELSE privFile
  /\ publicKey'  = IF fault = "none" THEN pubFile ELSE publicKey
  /\ UNCHANGED <<privFile, pubFile, generated>>

\* faulty variant: public.pem is never written
generateNewKeys_noPublicWrite(fault) ==
  /\ fault \in {"none", "writePrivate", "writePublic"}
  /\ generated < MaxKeys
  /\ generated' = generated + 1
  /\ privFile' = IF fault = "writePrivate" THEN privFile
                 ELSE PrivatePem(generated + 1)
  /\ pubFile'  = pubFile
  /\ privateKey' = IF fault = "none" THEN PrivatePem(generated + 1) ELSE privateKey
  /\ publicKey'  = IF fault = "none" THEN PublicPem(generated + 1) ELSE publicKey

\* generateNewKeys: generate, write private.pem, write public.pem, then
\* assign both fields
generateNewKeys(fault) ==
  /\ fault \in {"none", "writePrivate", "writePublic"}
  /\ generated < MaxKeys
  /\ generated' = generated + 1
  /\ privFile' = IF fault = "writePrivate" THEN privFile
                 ELSE PrivatePem(generated + 1)
  /\ pubFile'  = IF fault = "none" THEN PublicPem(generated + 1) ELSE pubFile
  /\ privateKey' = IF fault = "none" THEN PrivatePem(generated + 1) ELSE privateKey
  /\ publicKey'  = IF fault = "none" THEN PublicPem(generated + 1) ELSE publicKey

\* faulty variant: a new pair is generated whether or not the files exist
initializeKeys_alwaysGenerate(fault) ==
  \/ /\ ~keyDir /\ fault = "mkdir"
     /\ UNCHANGED <<privateKey, publicKey, keyDir, privFile, pubFile, generated>>
  \/ /\ fault # "mkdir"
     /\ keyDir' = TRUE
     /\ generateNewKeys(fault)

initializeKeys(fault) ==
  \/ /\ ~keyDir /\ fault = "mkdir"          \* mkdirSync throws
     /\ UNCHANGED <<privateKey, publicKey, keyDir, privFile, pubFile, generated>>
  \/ /\ fault # "mkdir"
     /\ keyDir' = TRUE
     /\ IF existsSync(privFile) /\ existsSync(pubFile)
        THEN loadExistingKeys(fault)
        ELSE generateNewKeys(fault)

InitializeKeys(fault) ==
  /\ initRuns < MaxInitRuns
  /\ initRuns' = initRuns + 1
  /\ initializeKeys(fault)
  /\ keysInit' = IF fault = "none" THEN "ok" ELSE "failed"
  /\ Record([op |-> "initializeKeys", args |-> <<>>,
             res |-> IF fault = "none" THEN Return(Undefined) ELSE Throw(fault)])
  /\ UNCHANGED <<protoVars, userVars, svcVars>>

Faults == {"none", "mkdir", "readPrivate", "readPublic", "writePrivate", "writePublic"}

-----------------------------------------------------------------------------
(* CryptoService: the methods called on the exported instance *)

Constructed == keysInit # "none"

HashEmail(email) ==
  /\ Constructed
  /\ Record([op |-> "hashEmail", args |-> <<email>>, res |-> hashEmail(email)])
  /\ UNCHANGED <<keyState, protoVars, userVars, svcVars>>

\* faulty variant: signing generates a key pair of its own
SignHash_regenerates(emailHash) ==
  /\ Constructed
  /\ Record([op |-> "signHash", args |-> <<emailHash>>, res |-> signHash(emailHash)])
  /\ generateNewKeys("none")
  /\ UNCHANGED <<keyDir, keysInit, initRuns, protoVars, userVars, svcVars>>

SignHash(emailHash) ==
  /\ Constructed
  /\ Record([op |-> "signHash", args |-> <<emailHash>>, res |-> signHash(emailHash)])
  /\ UNCHANGED <<keyState, protoVars, userVars, svcVars>>

VerifySignature(emailHash, signature) ==
  /\ Constructed
  /\ Record([op |-> "verifySignature", args |-> <<emailHash, signature>>,
             res |-> verifySignature(emailHash, signature)])
  /\ UNCHANGED <<keyState, protoVars, userVars, svcVars>>

GetPublicKey ==
  /\ Constructed
  /\ Record([op |-> "getPublicKey", args |-> <<>>, res |-> getPublicKey])
  /\ UNCHANGED <<keyState, protoVars, userVars, svcVars>>

ProcessUserEmail(email) ==
  /\ Constructed
  /\ Record([op |-> "processUserEmail", args |-> <<email>>,
             res |-> processUserEmail(email)])
  /\ UNCHANGED <<keyState, protoVars, userVars, svcVars>>

GetStats ==
  /\ Constructed
  /\ Record([op |-> "getStats", args |-> <<>>, res |-> getStats])
  /\ UNCHANGED <<keyState, protoVars, userVars, svcVars>>

-----------------------------------------------------------------------------
(* Inputs *)

\* all strings over Alphabet of length at most n
StringsUpTo(n) == UNION {[1..k -> Alphabet] : k \in 0..n}

\* values that are not strings, falsy and truthy
NonStrings == {Undefined, Null, Num("0"), Num("5")}

\* e-mail arguments of SpecCrypto
EmailInputs == {Str(<<" ", "A">>), Str(<<>>), Undefined, Num("5")}

\* digest arguments: digests of e-mails, other text, non-strings
HashInputs ==
  {Str(Sha384Hex(<<"a">>)), Str(<<"a">>), Str(<<>>), Undefined, Num("5")}

\* signature arguments: every signature some pair issues for some digest,
\* malformed hex text, the empty string, non-strings
SignatureInputs ==
  {RsaSha256Sign(PrivatePem(k), h) : k \in 0..MaxKeys, h \in {x \in HashInputs : IsString(x)}}
  \cup {Str(<<"z", "z">>), Str(<<>>), Undefined, Num("5")}

-----------------------------------------------------------------------------
(* ProtobufService: objects, the schema and the protobufjs codec *)

\* a plain object with the given properties, an array, and the values a
\* database row or a caller may hold for a creation time
Obj(props) == [t |-> "object", v |-> <<>>, props |-> props]
Arr(items) == [t |-> "array", v |-> <<>>, items |-> items]
ValidDate   == [t |-> "date", v |-> <<"2024-01-01">>]
InvalidDate == [t |-> "date", v |-> <<"NaN">>]
BigInt10    == [t |-> "bigint", v |-> <<"10">>]
APromise    == [t |-> "promise", v |-> <<>>]

IsNullish(x) == x.t \in {"undefined", "null", "absent"}

\* property read: a missing property reads as undefined
Get(o, k) ==
  IF k \in DOMAIN o.props /\ o.props[k] # Absent THEN o.props[k] ELSE Undefined

\* a || b
Or(a, b) == IF Truthy(a) THEN a ELSE b

\* schema user.proto as protobuf.load exposes it (field names in camelCase)
UserFields == {"id", "email", "role", "status", "createdAt", "emailHash", "signature"}
CollectionStringFields == {"exportedAt", "algorithm", "hashAlgorithm"}
CollectionFields == {"users", "totalCount"} \cup CollectionStringFields

\* property of a message object by schema field name
Field(msg, f) == IF f \in DOMAIN msg THEN msg[f] ELSE Undefined

\* Type.verify on a user.User candidate: a field that is set must be a string
VerifyUser(msg) ==
  LET bad == {f \in UserFields : ~IsNullish(Field(msg, f)) /\ ~IsString(Field(msg, f))}
  IN  IF bad = {} THEN Null ELSE Str(<<CHOOSE f \in bad : TRUE, ": string expected">>)

\* Type.create + Type.encode of user.User: the fields that are set are
\* written, every other property of the object is ignored
EncodeUser(msg) ==
  [f \in {g \in UserFields : ~IsNullish(Field(msg, g))} |-> Field(msg, f)]

\* Type.decode + Type.toObject(defaults: true) of user.User
DecodeUser(wire) ==
  Obj([f \in UserFields |-> IF f \in DOMAIN wire THEN wire[f] ELSE Str(<<>>)])

IsInteger(x) == x.t = "number" /\ x.v # <<"NaN">>

\* Type.verify on a user.UserCollection candidate
VerifyCollection(msg) ==
  LET users == Field(msg, "users")
      badStr == {f \in CollectionStringFields :
                   ~IsNullish(Field(msg, f)) /\ ~IsString(Field(msg, f))}
  IN  IF ~IsNullish(users) /\ users.t # "array"
      THEN Str(<<"users", ": array expected">>)
      ELSE IF ~IsNullish(users) /\ \E i \in 1..Len(users.items) :
                                     VerifyUser(users.items[i]) # Null
      THEN Str(<<"users.", "string expected">>)
      ELSE IF ~IsNullish(Field(msg, "totalCount")) /\ ~IsInteger(Field(msg, "totalCount"))
      THEN Str(<<"totalCount", ": integer expected">>)
      ELSE IF badStr # {}
      THEN Str(<<CHOOSE f \in badStr : TRUE, ": string expected">>)
      ELSE Null

\* Type.create + Type.encode of user.UserCollection
EncodeCollection(msg) ==
  LET set == {g \in CollectionFields :
                /\ ~IsNullish(Field(msg, g))
                /\ g = "users" => Len(Field(msg, g).items) > 0}
  IN  [f \in set |->
         IF f = "users"
         THEN [i \in 1..Len(msg[f].items) |-> EncodeUser(msg[f].items[i])]
         ELSE msg[f]]

\* Type.decode + Type.toObject(defaults: true, arrays: true) of user.UserCollection
DecodeCollection(wire) ==
  Obj([f \in CollectionFields |->
         IF f = "users"
         THEN Arr(IF f \in DOMAIN wire
                  THEN [i \in 1..Len(wire[f]) |-> DecodeUser(wire[f][i])]
                  ELSE <<>>)
         ELSE IF f \in DOMAIN wire THEN wire[f]
         ELSE IF f = "totalCount" THEN Num("0")
         ELSE Str(<<>>)])

\* a byte buffer: the encoding of a message of one of the two types, or
\* bytes that the decoder rejects.  A buffer is only ever handed to the
\* decoder of its own message type.
Buffer(kind, wire) == [t |-> "buffer", v |-> <<>>, kind |-> kind, wire |-> wire]
MalformedBuffer == Buffer("malformed", <<>>)

\* root.lookupType('user.User'), root.lookupType('user.UserCollection')
UserType == [t |-> "type", v |-> <<"user.User">>]
UserCollectionType == [t |-> "type", v |-> <<"user.UserCollection">>]

-----------------------------------------------------------------------------
(* ProtobufService: the methods *)

\* ProtobufService.toIsoString.  new Date(value) throws for a BigInt or a
\* Symbol; the empty catch block then falls off the end of the function.
toIsoString(value) ==
  IF ~Truthy(value) THEN Str(<<>>)
  ELSE IF IsString(value) THEN value
  ELSE IF value.t \in {"bigint", "symbol"} THEN Undefined
  ELSE IF value.t = "date" /\ value.v # <<"NaN">> THEN Str(<<"ISO">> \o value.v)
  ELSE Str(<<>>)

\* faulty variant: the creation time is read under the snake_case name only
userMessage_snakeOnly(user) ==
  [id        |-> Or(Get(user, "id"), Str(<<>>)),
   email     |-> Or(Get(user, "email"), Str(<<>>)),
   role      |-> Or(Get(user, "role"), Str(<<>>)),
   status    |-> Or(Get(user, "status"), Str(<<>>)),
   createdAt |-> toIsoString(Get(user, "created_at")),
   emailHash |-> Or(Or(Get(user, "email_hash"), Get(user, "emailHash")), Str(<<>>)),
   signature |-> Or(Get(user, "signature"), Str(<<>>))]

\* the field mapping of serializeUser (part_005:154-165), which
\* serializeUserCollection repeats for every element (part_005:209-220)
userMessage(user) ==
  [id        |-> Or(Get(user, "id"), Str(<<>>)),
   email     |-> Or(Get(user, "email"), Str(<<>>)),
   role      |-> Or(Get(user, "role"), Str(<<>>)),
   status    |-> Or(Get(user, "status"), Str(<<>>)),
   createdAt |-> toIsoString(Or(Get(user, "created_at"), Get(user, "createdAt"))),
   emailHash |-> Or(Or(Get(user, "email_hash"), Get(user, "emailHash")), Str(<<>>)),
   signature |-> Or(Get(user, "signature"), Str(<<>>))]

\* serializeUser after `await this.ensureInitialized()`; initialized is the
\* value of this.isInitialized at that point
serializeUserAfterInit(user, initialized) ==
  IF ~initialized THEN Throw("Protocol Buffer not initialized")
  ELSE IF ~Truthy(user) \/ user.t # "object" THEN Throw("Invalid user data provided")
  ELSE LET msg == userMessage(user) IN
       IF VerifyUser(msg) # Null THEN Throw("User message verification failed")
       ELSE Return(Buffer("user.User", EncodeUser(msg)))

\* faulty variant: the last element is not mapped
usersMapped_dropLast(users) ==
  Arr([i \in 1..(Len(users.items) - 1) |-> userMessage(users.items[i])])

\* users.map(user => ({...})): reading a property of null or undefined throws
usersMapped(users) ==
  Arr([i \in 1..Len(users.items) |-> userMessage(users.items[i])])

\* the collection message object of serializeUserCollection (part_005:235-241)
userCollectionMessage(users, now) ==
  [users          |-> usersMapped(users),
   total_count    |-> Num(ToString(Len(users.items))),
   exported_at    |-> now,
   algorithm      |-> Str(<<"RSA-2048">>),
   hash_algorithm |-> Str(<<"SHA-384">>)]

\* serializeUserCollection after `await this.ensureInitialized()`; now is
\* new Date().toISOString()
serializeUserCollectionAfterInit(users, initialized, now) ==
  IF ~initialized THEN Throw("Protocol Buffer not initialized")
  ELSE IF users.t # "array" THEN Throw("Users must be an array")
  ELSE IF \E i \in 1..Len(users.items) : IsNullish(users.items[i])
  THEN Throw("TypeError: Cannot read properties of null")
  ELSE LET msg == userCollectionMessage(users, now) IN
       IF VerifyCollection(msg) # Null
       THEN Throw("User collection message verification failed")
       ELSE Return(Buffer("user.UserCollection", EncodeCollection(msg)))

\* faulty variant: bytes the decoder rejects yield an empty record
deserializeUser_lenient(buffer) ==
  IF ~isInitialized THEN Throw("Protocol Buffer not initialized")
  ELSE IF buffer.t # "buffer" THEN Throw("Buffer must be a Buffer object")
  ELSE IF buffer.kind # "user.User" THEN Return(DecodeUser(<<>>))
  ELSE Return(DecodeUser(buffer.wire))

deserializeUser(buffer) ==
  IF ~isInitialized THEN Throw("Protocol Buffer not initialized")
  ELSE IF buffer.t # "buffer" THEN Throw("Buffer must be a Buffer object")
  ELSE IF buffer.kind # "user.User" THEN Throw("index out of range")
  ELSE Return(DecodeUser(buffer.wire))

deserializeUserCollection(buffer) ==
  IF ~isInitialized THEN Throw("Protocol Buffer not initialized")
  ELSE IF buffer.t # "buffer" THEN Throw("Buffer must be a Buffer object")
  ELSE IF buffer.kind # "user.UserCollection" THEN Throw("index out of range")
  ELSE Return(DecodeCollection(buffer.wire))

\* the test record of testProtobuf; now is new Date().toISOString()
testUser(now) ==
  Obj([id |-> Str(<<"test-id-123">>), email |-> Str(<<"test@example.com">>),
       role |-> Str(<<"user">>), status |-> Str(<<"active">>), created_at |-> now,
       email_hash |-> Str(<<"test-hash-123">>),
       signature |-> Str(<<"test-signature-123">>)])

\* deserialized.id === testUser.id && ... for the four compared fields
isDataIntact(deserialized, user) ==
  \A f \in {"id", "email", "role", "status"} : Get(deserialized, f) = Get(user, f)

\* testProtobuf given the value of `this.serializeUser(testUser)`; of the
\* result object the success property is kept
testProtobufOn(serialized, now) ==
  IF ~isInitialized THEN Throw("Protocol Buffer not initialized")
  ELSE LET deserialized == deserializeUser(serialized) IN
       IF deserialized.kind = "throw" THEN deserialized
       ELSE Return(Obj([success |-> Bool(isDataIntact(deserialized.val, testUser(now)))]))

\* testProtobuf: serializeUser is an async function and is called without
\* await, so `serialized` is the promise it returns
testProtobuf(now) == testProtobufOn(APromise, now)

-----------------------------------------------------------------------------
(* ProtobufService: steps.  A serialize call made while isInitialized is    *)
(* false starts its own initializeProtobuf run and waits for it; a call     *)
(* made once it is true runs to completion without interruption.            *)

\* at most this many serialize calls wait for a schema load at one time
MaxPending == 1
\* at most this many initializeProtobuf runs are started in one behaviour
MaxLoads == 3

\* remember a completed call; chained says its argument was the result of
\* the call before it
RecordPb(call, chained) ==
  /\ pbCall' = call
  /\ pbPrev' = IF chained THEN pbCall ELSE NoCall

\* ensureInitialized finds isInitialized false and calls initializeProtobuf
AwaitInit(call) ==
  /\ ~isInitialized
  /\ Len(pbPending) < MaxPending
  /\ initCount < MaxLoads
  /\ pbPending' = Append(pbPending, call)
  /\ initCount' = initCount + 1
  /\ UNCHANGED <<schemaState, ctorLoad, pbCall, pbPrev>>

SerializeUser(user, chained) ==
  /\ \/ AwaitInit([op |-> "serializeUser", args |-> <<user>>])
     \/ /\ isInitialized
        /\ RecordPb([op |-> "serializeUser", args |-> <<user>>,
                     res |-> serializeUserAfterInit(user, isInitialized)], chained)
        /\ UNCHANGED <<schemaState, ctorLoad, initCount, pbPending>>
  /\ UNCHANGED <<cryptoVars, userVars, svcVars>>

SerializeUserCollection(users, now, chained) ==
  /\ \/ AwaitInit([op |-> "serializeUserCollection", args |-> <<users>>])
     \/ /\ isInitialized
        /\ RecordPb([op |-> "serializeUserCollection", args |-> <<users>>,
                     res |-> serializeUserCollectionAfterInit(users, isInitialized, now)],
                    chained)
        /\ UNCHANGED <<schemaState, ctorLoad, initCount, pbPending>>
  /\ UNCHANGED <<cryptoVars, userVars, svcVars>>

\* initializeProtobuf after `await protobuf.load(protoPath)` (part_005:106-112)
initializeProtobuf(ok) ==
  IF ok
  THEN /\ UserMessage' = UserType
       /\ UserCollectionMessage' = UserCollectionType
       /\ isInitialized' = TRUE
  ELSE UNCHANGED schemaState

\* the run the constructor started finishes; a failure is only logged
ConstructorLoadDone(ok) ==
  /\ ctorLoad
  /\ ctorLoad' = FALSE
  /\ initializeProtobuf(ok)
  /\ UNCHANGED <<initCount, pbPending, pbCall, pbPrev>>
  /\ UNCHANGED <<cryptoVars, userVars, svcVars>>

\* the run a waiting call started finishes, and the call resumes
CallLoadDone(i, ok, now) ==
  /\ i \in 1..Len(pbPending)
  /\ initializeProtobuf(ok)
  /\ pbPending' = SubSeq(pbPending, 1, i - 1) \o SubSeq(pbPending, i + 1, Len(pbPending))
  /\ LET c == pbPending[i] IN
     RecordPb([op |-> c.op, args |-> c.args,
               res |-> IF ~ok THEN Throw("schema load failed")
                       ELSE IF c.op = "serializeUser"
                       THEN serializeUserAfterInit(c.args[1], TRUE)
                       ELSE serializeUserCollectionAfterInit(c.args[1], TRUE, now)],
              FALSE)
  /\ UNCHANGED <<ctorLoad, initCount>>
  /\ UNCHANGED <<cryptoVars, userVars, svcVars>>

DeserializeUser(buffer, chained) ==
  /\ RecordPb([op |-> "deserializeUser", args |-> <<buffer>>,
               res |-> deserializeUser(buffer)], chained)
  /\ UNCHANGED <<schemaState, ctorLoad, initCount, pbPending>>
  /\ UNCHANGED <<cryptoVars, userVars, svcVars>>

DeserializeUserCollection(buffer, chained) ==
  /\ RecordPb([op |-> "deserializeUserCollection", args |-> <<buffer>>,
               res |-> deserializeUserCollection(buffer)], chained)
  /\ UNCHANGED <<schemaState, ctorLoad, initCount, pbPending>>
  /\ UNCHANGED <<cryptoVars, userVars, svcVars>>

TestProtobuf(now) ==
  /\ RecordPb([op |-> "testProtobuf", args |-> <<>>, res |-> testProtobuf(now)], FALSE)
  /\ UNCHANGED <<schemaState, ctorLoad, initCount, pbPending>>
  /\ UNCHANGED <<cryptoVars, userVars, svcVars>>

-----------------------------------------------------------------------------
(* UserService (app.js:422-898), the User model (models/User.js) and the    *)
(* UserController.  The users table is taken as connected and answering;    *)
(* every query is one atomic read or write of the table, and a handler is   *)
(* suspended at each await on a query, where other handlers may run.        *)

\* at most this many rows are ever inserted
MaxIds == 2
\* at most this many user requests are suspended at one time
MaxTasks == 2

validRoles    == {Str(<<"admin">>), Str(<<"user">>), Str(<<"moderator">>)}
validStatuses == {Str(<<"active">>), Str(<<"inactive">>)}

\* /^[^\s@]+@[^\s@]+\.[^\s@]+$/.test(email)
isValidEmail(email) ==
  LET s == email.v
      ats == {i \in 1..Len(s) : s[i] = "@"}
  IN  /\ \A i \in 1..Len(s) : ~IsWhitespace(s[i])
      /\ Cardinality(ats) = 1
      /\ LET a == CHOOSE i \in ats : TRUE
         IN  /\ a > 1
             /\ \E j \in (a + 2)..(Len(s) - 1) : s[j] = "."

\* faulty variant: the role is not validated
validateUserData_noRoleCheck(userData, isUpdate) ==
  LET email  == Get(userData, "email")
      status == Get(userData, "status")
  IN  (IF ~isUpdate \/ email # Undefined
       THEN IF ~Truthy(email) \/ ~IsString(email)
            THEN <<"Email is required and must be a string">>
            ELSE IF ~isValidEmail(email)
            THEN <<"Email must be a valid email address">>
            ELSE <<>>
       ELSE <<>>)
      \o (IF status # Undefined /\ status \notin validStatuses
          THEN <<"Status must be one of: active, inactive">> ELSE <<>>)

\* validateUserData: the list of error texts
validateUserData(userData, isUpdate) ==
  LET email  == Get(userData, "email")
      role   == Get(userData, "role")
      status == Get(userData, "status")
  IN  (IF ~isUpdate \/ email # Undefined
       THEN IF ~Truthy(email) \/ ~IsString(email)
            THEN <<"Email is required and must be a string">>
            ELSE IF ~isValidEmail(email)
            THEN <<"Email must be a valid email address">>
            ELSE <<>>
       ELSE <<>>)
      \o (IF role # Undefined /\ role \notin validRoles
          THEN <<"Role must be one of: admin, user, moderator">> ELSE <<>>)
      \o (IF status # Undefined /\ status \notin validStatuses
          THEN <<"Status must be one of: active, inactive">> ELSE <<>>)

\* the id gen_random_uuid() hands out for the k-th row; a well-formed UUID
Uuid(k) == Str(<<"uuid", ToString(k)>>)

\* uuidRegex.test(userId)
uuidRegex(userId) == IsString(userId) /\ Len(userId.v) = 2 /\ userId.v[1] = "uuid"

\* the result objects of the service
Success(data) == [success |-> TRUE, error |-> <<>>, data |-> data]
Failure(error) == [success |-> FALSE, error |-> error, data |-> Null]

UserNotFound == Failure(<<"User not found">>)
EmailExists == Failure(<<"User with this email already exists">>)
DuplicateKey == Failure(<<"duplicate key value violates unique constraint">>)

\* User.findByEmail and User.findById against the table as it is now
findByEmail(email) ==
  LET m == {id \in DOMAIN usersTable : usersTable[id].email = email}
  IN  IF m = {} THEN Null ELSE Obj(usersTable[CHOOSE id \in m : TRUE])

\* faulty variant: the id goes to the UUID column unchecked, and the query
\* fails on an id that is no UUID
findById_noUuidCheck(userId) ==
  IF ~uuidRegex(userId) THEN JsError("invalid input syntax for type uuid")
  ELSE IF userId \notin DOMAIN usersTable THEN Null
  ELSE Obj(usersTable[userId])

findById(userId) ==
  IF ~uuidRegex(userId) THEN Null
  ELSE IF userId \notin DOMAIN usersTable THEN Null
  ELSE Obj(usersTable[userId])

\* the sequence without its i-th element
RemoveAt(seq, i) == SubSeq(seq, 1, i - 1) \o SubSeq(seq, i + 1, Len(seq))

\* the controller sends the response; of the body, success and error are
\* kept
Respond(op, args, res, http) ==
  usCall' = [op |-> op, args |-> args,
             res |-> [success |-> res.success, error |-> res.error],
             http |-> http]

\* the handler is suspended at its next query
Suspend(op, args, pc, data) ==
  /\ Len(usPending) < MaxTasks
  /\ usPending' = Append(usPending, [op |-> op, args |-> args, pc |-> pc, data |-> data])

\* the status a failed getUserById or deleteUser is answered with
StatusOrServerError(res) == IF res = UserNotFound THEN 404 ELSE 500

\* POST /api/users up to the INSERT: the controller's check, validation,
\* the lookup by e-mail, hashing and signing
CreateUser(body) ==
  LET email == Get(body, "email")
      userData == Obj([email |-> email, role |-> Get(body, "role"),
                       status |-> Get(body, "status"),
                       emailHash |-> Str(<<>>), signature |-> Str(<<>>)])
      errors == validateUserData(userData, FALSE)
      p == processUserEmail(email)
      Reject(res) == /\ Respond("createUser", <<body>>, res, 400)
                     /\ UNCHANGED <<usersTable, nextId, usPending>>
  IN  /\ Constructed
      /\ IF ~Truthy(email)
         THEN Reject(Failure(<<"Email is required">>)) /\ UNCHANGED cryptoVars
         ELSE IF errors # <<>>
         THEN Reject(Failure(<<"Validation failed">> \o errors)) /\ UNCHANGED cryptoVars
         ELSE IF findByEmail(email) # Null
         THEN Reject(EmailExists) /\ UNCHANGED cryptoVars
         ELSE /\ Record([op |-> "processUserEmail", args |-> <<email>>, res |-> p])
              /\ UNCHANGED keyState
              /\ IF p.kind = "throw"
                 THEN Reject(Failure(p.val.v))
                 ELSE /\ nextId + Cardinality({j \in 1..Len(usPending) :
                                                 usPending[j].pc = "create"}) <= MaxIds
                      /\ Suspend("createUser", <<body>>, "create",
                                 Obj([email |-> email,
                                      role |-> Or(Get(userData, "role"), Str(<<"user">>)),
                                      status |-> Or(Get(userData, "status"), Str(<<"active">>)),
                                      emailHash |-> p.val.emailHash,
                                      signature |-> p.val.signature]))
                      /\ UNCHANGED <<usersTable, nextId, usCall>>
      /\ UNCHANGED <<protoVars, svcVars>>

\* faulty variant: the email column carries no UNIQUE constraint
UserCreate_noUnique(i) ==
  /\ i \in 1..Len(usPending)
  /\ usPending[i].pc = "create"
  /\ LET t == usPending[i]
         d == t.data.props
         row == [id |-> Uuid(nextId), email |-> d.email,
                 role |-> Or(d.role, Str(<<"user">>)),
                 status |-> Or(d.status, Str(<<"active">>)),
                 created_at |-> ValidDate,
                 email_hash |-> d.emailHash, signature |-> d.signature]
     IN  /\ usersTable' = usersTable @@ (Uuid(nextId) :> row)
         /\ nextId' = nextId + 1
         /\ Respond(t.op, t.args, Success(Obj(row)), 201)
  /\ usPending' = RemoveAt(usPending, i)
  /\ UNCHANGED <<cryptoVars, protoVars, svcVars>>

\* User.create: the INSERT runs; email is UNIQUE
UserCreate(i) ==
  /\ i \in 1..Len(usPending)
  /\ usPending[i].pc = "create"
  /\ LET t == usPending[i]
         d == t.data.props
         row == [id |-> Uuid(nextId), email |-> d.email,
                 role |-> Or(d.role, Str(<<"user">>)),
                 status |-> Or(d.status, Str(<<"active">>)),
                 created_at |-> ValidDate,
                 email_hash |-> d.emailHash, signature |-> d.signature]
     IN  IF findByEmail(d.email) # Null
         THEN /\ Respond(t.op, t.args, DuplicateKey, 400)
              /\ UNCHANGED <<usersTable, nextId>>
         ELSE /\ usersTable' = usersTable @@ (Uuid(nextId) :> row)
              /\ nextId' = nextId + 1
              /\ Respond(t.op, t.args, Success(Obj(row)), 201)
  /\ usPending' = RemoveAt(usPending, i)
  /\ UNCHANGED <<cryptoVars, protoVars, svcVars>>

\* GET /api/users/:id
GetUserById(userId) ==
  LET user == findById(userId)
      Answer(res, http) == Respond("getUserById", <<userId>>, res, http)
  IN  /\ Constructed
      /\ IF ~Truthy(userId)
         THEN Answer(Failure(<<"User ID is required">>), 400)
         ELSE IF user.t = "error"
         THEN Answer(Failure(user.v), StatusOrServerError(Failure(user.v)))
         ELSE IF user = Null
         THEN Answer(UserNotFound, StatusOrServerError(UserNotFound))
         ELSE Answer(Success(user), 200)
      /\ UNCHANGED <<usersTable, nextId, usPending, cryptoVars, protoVars, svcVars>>

\* PUT /api/users/:id up to the await that follows User.findById
UpdateUser(userId, body) ==
  LET errors == validateUserData(body, TRUE)
      existingUser == findById(userId)
      email == Get(body, "email")
      Answer(res, http) == /\ Respond("updateUser", <<userId, body>>, res, http)
                           /\ UNCHANGED usPending
  IN  /\ Constructed
      /\ IF ~Truthy(userId)
         THEN Answer(Failure(<<"User ID is required">>), 400)
         ELSE IF DOMAIN body.props = {}
         THEN Answer(Failure(<<"Update data is required">>), 400)
         ELSE IF errors # <<>>
         THEN Answer(Failure(<<"Validation failed">> \o errors), 400)
         ELSE IF existingUser.t = "error"
         THEN Answer(Failure(existingUser.v), 400)
         ELSE IF existingUser = Null
         THEN Answer(UserNotFound, 404)
         ELSE /\ Suspend("updateUser", <<userId, body>>,
                         IF Truthy(email) /\ email # Get(existingUser, "email")
                         THEN "findByEmail" ELSE "update",
                         body)
              /\ UNCHANGED usCall
      /\ UNCHANGED <<usersTable, nextId, cryptoVars, protoVars, svcVars>>

\* updateUser resumes after User.findByEmail: the uniqueness check, then
\* hashing and signing of the new e-mail
UpdateFindByEmail(i) ==
  /\ i \in 1..Len(usPending)
  /\ usPending[i].pc = "findByEmail"
  /\ LET t == usPending[i]
         updateData == t.data.props
         email == updateData.email
         p == processUserEmail(email)
     IN  IF findByEmail(email) # Null
         THEN /\ Respond(t.op, t.args, EmailExists, 400)
              /\ usPending' = RemoveAt(usPending, i)
              /\ UNCHANGED cryptoVars
         ELSE /\ Record([op |-> "processUserEmail", args |-> <<email>>, res |-> p])
              /\ UNCHANGED keyState
              /\ IF p.kind = "throw"
                 THEN /\ Respond(t.op, t.args, Failure(p.val.v), 400)
                      /\ usPending' = RemoveAt(usPending, i)
                 ELSE /\ usPending' =
                           [usPending EXCEPT ![i] =
                              [t EXCEPT !.pc = "update",
                                        !.data = Obj([k \in DOMAIN updateData \cup {"emailHash", "signature"} |->
                                                        IF k = "emailHash" THEN p.val.emailHash
                                                        ELSE IF k = "signature" THEN p.val.signature
                                                        ELSE updateData[k]])]]
                      /\ UNCHANGED usCall
  /\ UNCHANGED <<usersTable, nextId, protoVars, svcVars>>

\* the column User.update writes a property of updateData to
UpdateColumns ==
  [email |-> "email", role |-> "role", status |-> "status",
   emailHash |-> "email_hash", signature |-> "signature"]

\* User.update: the UPDATE runs
UserUpdate(i) ==
  /\ i \in 1..Len(usPending)
  /\ usPending[i].pc = "update"
  /\ LET t == usPending[i]
         userId == t.args[1]
         updateData == t.data
         fields == {k \in DOMAIN UpdateColumns : Get(updateData, k) # Undefined}
         Answer(res, http) == Respond(t.op, t.args, res, http) /\ UNCHANGED usersTable
     IN  IF fields = {}
         THEN Answer(Failure(<<"No fields to update">>), 400)
         ELSE IF userId \notin DOMAIN usersTable
         THEN Answer(UserNotFound, 404)
         ELSE IF /\ "email" \in fields
                 /\ \E id \in DOMAIN usersTable \ {userId} :
                      usersTable[id].email = Get(updateData, "email")
         THEN Answer(DuplicateKey, 400)
         ELSE LET old == usersTable[userId]
                  row == [c \in DOMAIN old |->
                            IF \E k \in fields : UpdateColumns[k] = c
                            THEN Get(updateData, CHOOSE k \in fields : UpdateColumns[k] = c)
                            ELSE old[c]]
              IN  /\ usersTable' = [usersTable EXCEPT ![userId] = row]
                  /\ Respond(t.op, t.args, Success(Obj(row)), 200)
  /\ usPending' = RemoveAt(usPending, i)
  /\ UNCHANGED <<nextId, cryptoVars, protoVars, svcVars>>

\* DELETE /api/users/:id up to the await that follows User.findById
DeleteUser(userId) ==
  LET existingUser == findById(userId)
      Answer(res, http) == /\ Respond("deleteUser", <<userId>>, res, http)
                           /\ UNCHANGED usPending
  IN  /\ Constructed
      /\ IF ~Truthy(userId)
         THEN Answer(Failure(<<"User ID is required">>), 400)
         ELSE IF existingUser.t = "error"
         THEN Answer(Failure(existingUser.v), StatusOrServerError(Failure(existingUser.v)))
         ELSE IF existingUser = Null
         THEN Answer(UserNotFound, StatusOrServerError(UserNotFound))
         ELSE /\ Suspend("deleteUser", <<userId>>, "delete", existingUser)
              /\ UNCHANGED usCall
      /\ UNCHANGED <<usersTable, nextId, cryptoVars, protoVars, svcVars>>

\* User.delete: the DELETE runs
UserDelete(i) ==
  /\ i \in 1..Len(usPending)
  /\ usPending[i].pc = "delete"
  /\ LET t == usPending[i]
         userId == t.args[1]
     IN  IF userId \notin DOMAIN usersTable
         THEN /\ Respond(t.op, t.args, UserNotFound, StatusOrServerError(UserNotFound))
              /\ UNCHANGED usersTable
         ELSE /\ usersTable' = [id \in DOMAIN usersTable \ {userId} |-> usersTable[id]]
              /\ Respond(t.op, t.args, Success(Obj([id |-> userId])), 200)
  /\ usPending' = RemoveAt(usPending, i)
  /\ UNCHANGED <<nextId, cryptoVars, protoVars, svcVars>>

\* the characters parseInt reads as decimal digits, and the number a run of
\* them denotes
DigitChars == {"0", "1", "2", "3", "4", "5", "6", "7", "8", "9"}
RECURSIVE DigitsValue(_)
DigitsValue(ds) ==
  IF ds = <<>> THEN 0
  ELSE 10 * DigitsValue(SubSeq(ds, 1, Len(ds) - 1))
       + (CHOOSE d \in 0..9 : ToString(d) = ds[Len(ds)])

\* parseInt(string): leading white space and a sign are skipped, the longest
\* run of digits is read and the rest is ignored; with no digit the result
\* is NaN
NaN == [nan |-> TRUE, n |-> 0]
parseInt(x) ==
  LET str == x.v
      black == {i \in 1..Len(str) : ~IsWhitespace(str[i])}
      a == IF black = {} THEN Len(str) + 1 ELSE SetMin(black)
      signed == a <= Len(str) /\ str[a] \in {"-", "+"}
      b == IF signed THEN a + 1 ELSE a
      other == {i \in b..Len(str) : str[i] \notin DigitChars}
      e == IF other = {} THEN Len(str) ELSE SetMin(other) - 1
  IN  IF e < b THEN NaN
      ELSE [nan |-> FALSE,
            n |-> (IF signed /\ str[a] = "-" THEN -1 ELSE 1) * DigitsValue(SubSeq(str, b, e))]

\* a < b and a > b on numbers: every comparison with NaN is false
Less(a, b) == ~a.nan /\ a.n < b
Greater(a, b) == ~a.nan /\ a.n > b

\* GET /api/users: the controller's checks, then UserService.getUsers, whose
\* two queries (User.findAll, User.count) only read the table.  queries is
\* the number of queries the request sent to the store.
GetUsers(page, limit) ==
  LET pageNum  == parseInt(IF page = Undefined THEN Str(<<"1">>) ELSE page)
      limitNum == parseInt(IF limit = Undefined THEN Str(<<"1", "0">>) ELSE limit)
      Answer(res, http, queries) ==
        usCall' = [op |-> "getUsers", args |-> <<page, limit>>,
                   res |-> [success |-> res.success, error |-> res.error],
                   http |-> http, queries |-> queries]
  IN  /\ Constructed
      /\ IF Less(pageNum, 1)
         THEN Answer(Failure(<<"Invalid page number">>), 400, 0)
         ELSE IF Less(limitNum, 1) \/ Greater(limitNum, 100)
         THEN Answer(Failure(<<"Invalid limit">>), 400, 0)
         ELSE Answer(Success(Null), 200, 2)
      /\ UNCHANGED <<usersTable, nextId, usPending, cryptoVars, protoVars, svcVars>>

\* the orders in which a query may return the rows: every row carries the
\* same created_at here, so ORDER BY created_at DESC leaves the order open
Orders(ids) ==
  {o \in [1..Cardinality(ids) -> ids] : \A i, j \in 1..Cardinality(ids) : o[i] = o[j] => i = j}

\* User.findAll() without options
findAll(order) == Arr([i \in 1..Len(order) |-> Obj(usersTable[order[i]])])

\* Buffer.alloc(0): no bytes, which decode as the message without any field
EmptyBuffer == Buffer("user.UserCollection", <<>>)

\* GET /api/users/export with the schema loaded: User.findAll and
\* serializeUserCollection, whose outcome is kept in the result of the
\* request.  found is the list User.findAll returned.
ExportUsers(order, now) ==
  LET users == findAll(order)
      serializedData == serializeUserCollectionAfterInit(users, isInitialized, now)
      Answer(res, http) ==
        usCall' = [op |-> "exportUsers", args |-> <<>>, res |-> res,
                   http |-> http, found |-> users]
  IN  /\ Constructed
      /\ isInitialized
      /\ IF Len(users.items) = 0
         THEN Answer([success |-> TRUE, error |-> <<>>, data |-> EmptyBuffer,
                      userCount |-> 0], 200)
         ELSE IF serializedData.kind = "throw"
         THEN Answer([success |-> FALSE, error |-> serializedData.val.v,
                      data |-> Null, userCount |-> 0], 500)
         ELSE Answer([success |-> TRUE, error |-> <<>>, data |-> serializedData.val,
                      userCount |-> Len(users.items)], 200)
      /\ UNCHANGED <<usersTable, nextId, usPending, cryptoVars, protoVars, svcVars>>

-----------------------------------------------------------------------------
(* DatabaseService (app.js:275-419) and the server process (part_005:1-56). *)
(* An operation is suspended at each await; pool.connect(), client.query()  *)
(* and pool.end() may each resolve or reject.  Nothing runs once            *)
(* process.exit has been called (server = "exited").                        *)

\* at most this many Pool objects are created in one behaviour
MaxPools == 2
\* at most this many DatabaseService calls are suspended at one time
MaxDbTasks == 2
\* at most this many clients are checked out (the size of the pool)
MaxClients == 2
\* at most this many connections are open on the HTTP server
MaxConns == 1
\* at most this many termination signals are delivered
MaxSignals == 2

\* new Pool(config.database)
PoolObject(k) == [t |-> "pool", v |-> <<ToString(k)>>]

\* faulty variant: startServer listens whatever connect() did
Settle_alwaysListens(t, res) ==
  /\ dbCall' = [op |-> t.op, caller |-> t.caller, res |-> res]
  /\ IF t.caller = "startServer"
     THEN server' = "listening" /\ UNCHANGED exitCode
     ELSE UNCHANGED <<server, exitCode>>

\* the call returns or throws to its caller; startServer listens when its
\* connect() has returned and exits with code 1 when it has thrown
Settle(t, res) ==
  /\ dbCall' = [op |-> t.op, caller |-> t.caller, res |-> res]
  /\ IF t.caller = "startServer"
     THEN IF res.kind = "return"
          THEN server' = "listening" /\ UNCHANGED exitCode
          ELSE server' = "exited" /\ exitCode' = 1
     ELSE UNCHANGED <<server, exitCode>>

\* connect(): this.pool = new Pool(...), then `await this.pool.connect()`
BeginConnect(caller) ==
  /\ pools < MaxPools
  /\ Len(dbPending) < MaxDbTasks
  /\ pools' = pools + 1
  /\ pool' = PoolObject(pools + 1)
  /\ dbPending' = Append(dbPending, [op |-> "connect", pc |-> "acquire", caller |-> caller])
  /\ UNCHANGED <<isConnected, checkedOut, dbCall, lastSettled>>

\* startServer(): `await databaseService.connect()`
StartServer ==
  /\ server = "idle"
  /\ server' = "starting"
  /\ BeginConnect("startServer")
  /\ UNCHANGED <<exitCode, timers, openConns>>
  /\ UNCHANGED <<cryptoVars, protoVars, userVars>>

\* connect() called by anyone else (the test suites do)
Connect ==
  /\ server # "exited"
  /\ BeginConnect("caller")
  /\ UNCHANGED serverVars
  /\ UNCHANGED <<cryptoVars, protoVars, userVars>>

\* testConnection() and getStats() up to `await this.pool.connect()`
BeginQuery(op) ==
  /\ server # "exited"
  /\ IF ~Truthy(pool)
     THEN /\ dbCall' = [op |-> op, caller |-> "caller", res |-> Throw("Database not connected")]
          /\ UNCHANGED dbPending
     ELSE /\ Len(dbPending) < MaxDbTasks
          /\ dbPending' = Append(dbPending, [op |-> op, pc |-> "acquire", caller |-> "caller"])
          /\ UNCHANGED dbCall
  /\ UNCHANGED <<pool, isConnected, pools, checkedOut, lastSettled>>
  /\ UNCHANGED serverVars
  /\ UNCHANGED <<cryptoVars, protoVars, userVars>>

TestConnection == BeginQuery("testConnection")
DbGetStats == BeginQuery("getStats")

\* `await this.pool.connect()` settles: a client is checked out, or the
\* rejection is rethrown
Acquire(i, ok) ==
  /\ server # "exited"
  /\ i \in 1..Len(dbPending)
  /\ dbPending[i].pc = "acquire"
  /\ IF ok
     THEN /\ checkedOut < MaxClients
          /\ checkedOut' = checkedOut + 1
          /\ dbPending' = [dbPending EXCEPT ![i].pc = "query"]
          /\ UNCHANGED <<dbCall, server, exitCode>>
     ELSE /\ dbPending' = RemoveAt(dbPending, i)
          /\ Settle(dbPending[i], Throw("connection refused"))
          /\ UNCHANGED checkedOut
  /\ UNCHANGED <<pool, isConnected, pools, lastSettled, timers, openConns>>
  /\ UNCHANGED <<cryptoVars, protoVars, userVars>>

\* what the call returns once its query has resolved
QueryResult(op) ==
  CASE op = "connect" -> pool
    [] op = "testConnection" -> Obj([test |-> Num("1")])
    [] op = "getStats" -> Obj([connected |-> Bool(isConnected)])

\* faulty variant: connect sets isConnected although the table creation failed
Query_flagOnFailure(i, ok) ==
  /\ server # "exited"
  /\ i \in 1..Len(dbPending)
  /\ dbPending[i].pc = "query"
  /\ dbPending' = RemoveAt(dbPending, i)
  /\ IF ok
     THEN /\ checkedOut' = checkedOut - 1
          /\ Settle(dbPending[i], Return(QueryResult(dbPending[i].op)))
          /\ IF dbPending[i].op = "connect"
             THEN isConnected' = TRUE /\ lastSettled' = "connect"
             ELSE UNCHANGED <<isConnected, lastSettled>>
     ELSE /\ Settle(dbPending[i], Throw("query failed"))
          /\ IF dbPending[i].op = "connect"
             THEN isConnected' = TRUE /\ UNCHANGED lastSettled
             ELSE UNCHANGED <<isConnected, lastSettled>>
          /\ UNCHANGED checkedOut
  /\ UNCHANGED <<pool, pools, timers, openConns>>
  /\ UNCHANGED <<cryptoVars, protoVars, userVars>>

\* `await client.query(...)` settles (for connect: initializeTables).  The
\* client is released on the path on which the query resolved only.
Query(i, ok) ==
  /\ server # "exited"
  /\ i \in 1..Len(dbPending)
  /\ dbPending[i].pc = "query"
  /\ dbPending' = RemoveAt(dbPending, i)
  /\ IF ok
     THEN /\ checkedOut' = checkedOut - 1
          /\ Settle(dbPending[i], Return(QueryResult(dbPending[i].op)))
          /\ IF dbPending[i].op = "connect"
             THEN isConnected' = TRUE /\ lastSettled' = "connect"
             ELSE UNCHANGED <<isConnected, lastSettled>>
     ELSE /\ Settle(dbPending[i], Throw("query failed"))
          /\ UNCHANGED <<checkedOut, isConnected, lastSettled>>
  /\ UNCHANGED <<pool, pools, timers, openConns>>
  /\ UNCHANGED <<cryptoVars, protoVars, userVars>>

\* getDatabase()
getDatabase ==
  IF ~isConnected THEN Throw("Database not connected. Call connect() first.")
  ELSE Return(pool)

GetDatabase ==
  /\ server # "exited"
  /\ dbCall' = [op |-> "getDatabase", caller |-> "caller", res |-> getDatabase]
  /\ UNCHANGED <<pool, isConnected, pools, checkedOut, dbPending, lastSettled>>
  /\ UNCHANGED serverVars
  /\ UNCHANGED <<cryptoVars, protoVars, userVars>>

\* disconnect() up to `await this.pool.end()`; without a pool it returns
Disconnect ==
  /\ server # "exited"
  /\ IF ~Truthy(pool)
     THEN /\ dbCall' = [op |-> "disconnect", caller |-> "caller", res |-> Return(Undefined)]
          /\ UNCHANGED dbPending
     ELSE /\ Len(dbPending) < MaxDbTasks
          /\ dbPending' = Append(dbPending, [op |-> "disconnect", pc |-> "end", caller |-> "caller"])
          /\ UNCHANGED dbCall
  /\ UNCHANGED <<pool, isConnected, pools, checkedOut, lastSettled>>
  /\ UNCHANGED serverVars
  /\ UNCHANGED <<cryptoVars, protoVars, userVars>>

\* `await this.pool.end()` settles
PoolEnd(i, ok) ==
  /\ server # "exited"
  /\ i \in 1..Len(dbPending)
  /\ dbPending[i].pc = "end"
  /\ dbPending' = RemoveAt(dbPending, i)
  /\ IF ok
     THEN /\ isConnected' = FALSE
          /\ lastSettled' = "disconnect"
          /\ Settle(dbPending[i], Return(Undefined))
     ELSE /\ Settle(dbPending[i], Throw("Called end on pool more than once"))
          /\ UNCHANGED <<isConnected, lastSettled>>
  /\ UNCHANGED <<pool, pools, checkedOut, timers, openConns>>
  /\ UNCHANGED <<cryptoVars, protoVars, userVars>>

\* a client opens a connection to the listening server, or closes one
ConnOpen ==
  /\ server = "listening"
  /\ openConns < MaxConns
  /\ openConns' = openConns + 1
  /\ UNCHANGED <<server, exitCode, timers, dbVars>>
  /\ UNCHANGED <<cryptoVars, protoVars, userVars>>

ConnClose ==
  /\ server \in {"listening", "closing"}
  /\ openConns > 0
  /\ openConns' = openConns - 1
  /\ UNCHANGED <<server, exitCode, timers, dbVars>>
  /\ UNCHANGED <<cryptoVars, protoVars, userVars>>

\* faulty variant: no force timer is armed
GracefulShutdown_noTimer ==
  /\ server \in {"listening", "closing"}
  /\ timers < MaxSignals
  /\ server' = "closing"
  /\ timers' = timers
  /\ UNCHANGED <<exitCode, openConns, dbVars>>
  /\ UNCHANGED <<cryptoVars, protoVars, userVars>>

\* gracefulShutdown(signal) on SIGTERM or SIGINT: server.close(callback) and
\* the force timer; a further signal runs it again
GracefulShutdown ==
  /\ server \in {"listening", "closing"}
  /\ timers < MaxSignals
  /\ server' = "closing"
  /\ timers' = timers + 1
  /\ UNCHANGED <<exitCode, openConns, dbVars>>
  /\ UNCHANGED <<cryptoVars, protoVars, userVars>>

\* the server has closed (it accepts nothing and no connection is left):
\* the callbacks of server.close run, the first calls process.exit(0)
ServerClosed ==
  /\ server = "closing"
  /\ openConns = 0
  /\ server' = "exited"
  /\ exitCode' = 0
  /\ UNCHANGED <<timers, openConns, dbVars>>
  /\ UNCHANGED <<cryptoVars, protoVars, userVars>>

\* the 10-second timer fires: process.exit(1)
ForceExit ==
  /\ server = "closing"
  /\ timers > 0
  /\ server' = "exited"
  /\ exitCode' = 1
  /\ UNCHANGED <<timers, openConns, dbVars>>
  /\ UNCHANGED <<cryptoVars, protoVars, userVars>>

-----------------------------------------------------------------------------
(* The key directory when the process starts: empty, or holding the files   *)
(* an earlier run left (pair 0), possibly only one of them.                 *)

InitCrypto ==
  /\ privateKey = Null
  /\ publicKey = Null
  /\ keyDir \in BOOLEAN
  /\ privFile \in {Absent, PrivatePem(0)}
  /\ pubFile \in {Absent, PublicPem(0)}
  /\ ~keyDir => (privFile = Absent /\ pubFile = Absent)
  /\ generated = 0
  /\ keysInit = "none"
  /\ initRuns = 0
  /\ cryptoCall = NoCall
  /\ hashPrev = NoCall

NextCrypto ==
  \/ \E fault \in Faults : InitializeKeys(fault)
  \/ \E e \in EmailInputs : HashEmail(e)
  \/ \E h \in HashInputs : SignHash(h)
  \/ \E h \in HashInputs, s \in SignatureInputs : VerifySignature(h, s)
  \/ GetPublicKey
  \/ \E e \in EmailInputs : ProcessUserEmail(e)
  \/ GetStats

\* the instance as constructed in an empty key directory, no fs call failing
InitConstructed ==
  /\ privateKey = PrivatePem(1)
  /\ publicKey = PublicPem(1)
  /\ keyDir = TRUE
  /\ privFile = PrivatePem(1)
  /\ pubFile = PublicPem(1)
  /\ generated = 1
  /\ keysInit = "ok"
  /\ initRuns = 1
  /\ cryptoCall = NoCall
  /\ hashPrev = NoCall

\* the users table empty, no request made
UserIdle ==
  /\ usersTable = <<>>
  /\ nextId = 1
  /\ usPending = <<>>
  /\ usCall = [op |-> "none", args |-> <<>>,
               res |-> [success |-> TRUE, error |-> <<>>], http |-> 0]

\* the DatabaseService as constructed, the server process not started
ServiceIdle ==
  /\ pool = Null
  /\ isConnected = FALSE
  /\ pools = 0
  /\ checkedOut = 0
  /\ dbPending = <<>>
  /\ dbCall = [op |-> "none", caller |-> "none", res |-> Return(Undefined)]
  /\ lastSettled = "none"
  /\ server = "idle"
  /\ exitCode = -1
  /\ timers = 0
  /\ openConns = 0

\* the ProtobufService with its schema loaded and no call made
ProtoIdle ==
  /\ UserMessage = UserType
  /\ UserCollectionMessage = UserCollectionType
  /\ isInitialized = TRUE
  /\ ctorLoad = FALSE
  /\ initCount = 1
  /\ pbPending = <<>>
  /\ pbCall = NoCall
  /\ pbPrev = NoCall

\* the CryptoService from an arbitrary key directory, the codec idle
Init == InitCrypto /\ ProtoIdle /\ UserIdle /\ ServiceIdle
Next == NextCrypto

Spec == Init /\ [][Next]_vars

\* hashEmail alone, on every string up to MaxLen and on non-strings
NextHash ==
  \E e \in {Str(s) : s \in StringsUpTo(MaxLen)} \cup NonStrings : HashEmail(e)

\* both services constructed and idle
InitHash == InitConstructed /\ ProtoIdle /\ UserIdle /\ ServiceIdle

SpecHash == InitHash /\ [][NextHash]_vars

-----------------------------------------------------------------------------
(* Inputs of the ProtobufService *)

\* longest array handed to serializeUserCollection
MaxUsers == 2

\* a database row with string properties
RowStrings ==
  [id |-> Str(<<"u1">>), email |-> Str(<<"a@b.com">>), role |-> Str(<<"user">>),
   status |-> Str(<<"active">>), created_at |-> Str(<<"2024-01-01T00:00:00Z">>),
   email_hash |-> Str(<<"hash_snake">>), signature |-> Str(<<"sig">>)]

\* user objects: the row, the row lacking one property, the empty object;
\* the row with its creation time under either spelling or both, as a
\* string, a Date, an invalid Date or a BigInt; the row with its e-mail hash
\* under either spelling or both; and the row with an empty string or a
\* number as id
UserObjects ==
  {Obj(RowStrings), Obj(<<>>)}
  \cup {Obj([k \in DOMAIN RowStrings \ {f} |-> RowStrings[k]]) : f \in DOMAIN RowStrings}
  \cup
  {Obj([k \in {j \in DOMAIN r : r[j] # Absent} |-> r[k]]) : r \in
     [id         : {Str(<<"u1">>)},
      email      : {Str(<<"a@b.com">>)},
      role       : {Str(<<"user">>)},
      status     : {Str(<<"active">>)},
      created_at : {Absent, Str(<<"2024-01-01T00:00:00Z">>), ValidDate,
                    InvalidDate, BigInt10},
      createdAt  : {Absent, Str(<<"2025-02-02T00:00:00Z">>)},
      emailHash  : {Str(<<"hashCamel">>)},
      signature  : {Str(<<"sig">>)}]}
  \cup
  {Obj([k \in {j \in DOMAIN r : r[j] # Absent} |-> r[k]]) : r \in
     [id         : {Str(<<"u1">>)},
      email      : {Str(<<"a@b.com">>)},
      role       : {Str(<<"user">>)},
      status     : {Str(<<"active">>)},
      created_at : {Str(<<"2024-01-01T00:00:00Z">>)},
      email_hash : {Absent, Str(<<"hash_snake">>)},
      emailHash  : {Absent, Str(<<"hashCamel">>)},
      signature  : {Str(<<"sig">>)}]}
  \cup {Obj([RowStrings EXCEPT !.id = i]) : i \in {Str(<<>>), Num("7")}}

UserInputs == UserObjects \cup {Null, Undefined, Str(<<"u1">>)}

\* a database row, a record in the decoded spelling, a sparse record, a
\* record whose id is not a string
RowSnake ==
  Obj([id |-> Str(<<"u1">>), email |-> Str(<<"a@b.com">>), role |-> Str(<<"user">>),
       status |-> Str(<<"active">>), created_at |-> ValidDate,
       email_hash |-> Str(<<"hash_snake">>), signature |-> Str(<<"sig">>)])
RecordCamel ==
  Obj([id |-> Str(<<"u2">>), email |-> Str(<<"c@d.com">>), role |-> Str(<<"admin">>),
       status |-> Str(<<"inactive">>), createdAt |-> Str(<<"2025-02-02T00:00:00Z">>),
       emailHash |-> Str(<<"hashCamel">>), signature |-> Str(<<"sig2">>)])
RecordSparse == Obj([email |-> Str(<<"e@f.com">>)])
RecordBadId  == Obj([id |-> Num("7"), email |-> Str(<<"a@b.com">>)])

UserPool == {RowSnake, RecordCamel, RecordSparse}

UserCollectionInputs ==
  {Arr(xs) : xs \in UNION {[1..n -> UserPool] : n \in 0..MaxUsers}}
  \cup {Arr(<<RecordBadId>>), Arr(<<Null>>), Undefined, RowSnake}

\* values of new Date().toISOString()
Timestamps == {Str(<<"ISO", "now1">>), Str(<<"ISO", "now2">>)}

\* arguments of a serialize call made before the schema is loaded
PendingUserInputs == {RowSnake}
PendingCollectionInputs == {Arr(<<RowSnake>>)}

\* a collection as the wire format defines it: the records, their count,
\* the export time and the two algorithm names
ConformingCollection(wires, exportedAt) ==
  LET meta == [totalCount    |-> Num(ToString(Len(wires))),
               exportedAt    |-> exportedAt,
               algorithm     |-> Str(<<"RSA-2048">>),
               hashAlgorithm |-> Str(<<"SHA-384">>)]
  IN  Buffer("user.UserCollection",
             IF wires = <<>> THEN meta ELSE [users |-> wires] @@ meta)

WirePool == {EncodeUser(userMessage(RowSnake)), EncodeUser(userMessage(RecordSparse))}

\* arguments of the decoders that no earlier call returned: rejected bytes,
\* values that are no Buffer, and well-formed encodings
UserBufferInputs ==
  {MalformedBuffer, Str(<<"bytes">>), Undefined, APromise, Buffer("user.User", <<>>)}
  \cup {Buffer("user.User", w) : w \in WirePool}

CollectionBufferInputs ==
  {MalformedBuffer, Str(<<"bytes">>), Undefined, APromise}
  \cup {ConformingCollection(ws, Str(<<"ISO", "before">>)) :
          ws \in UNION {[1..n -> WirePool] : n \in 0..MaxUsers}}

Returned(call, op) == call.op = op /\ call.res.kind = "return"

\* the ProtobufService as constructed: the schema load is in flight
InitProto ==
  /\ UserMessage = Null
  /\ UserCollectionMessage = Null
  /\ isInitialized = FALSE
  /\ ctorLoad = TRUE
  /\ initCount = 1
  /\ pbPending = <<>>
  /\ pbCall = NoCall
  /\ pbPrev = NoCall

NextProto ==
  \/ \E ok \in BOOLEAN : ConstructorLoadDone(ok)
  \/ \E i \in 1..Len(pbPending), ok \in BOOLEAN, now \in Timestamps : CallLoadDone(i, ok, now)
  \/ \E u \in (IF isInitialized THEN UserInputs ELSE PendingUserInputs) :
       SerializeUser(u, FALSE)
  \/ /\ Returned(pbCall, "deserializeUser")
     /\ SerializeUser(pbCall.res.val, TRUE)
  \/ \E xs \in (IF isInitialized THEN UserCollectionInputs ELSE PendingCollectionInputs),
        now \in Timestamps :
       SerializeUserCollection(xs, now, FALSE)
  \/ /\ Returned(pbCall, "deserializeUserCollection")
     /\ \E now \in Timestamps :
          SerializeUserCollection(Get(pbCall.res.val, "users"), now, TRUE)
  \/ \E b \in UserBufferInputs : DeserializeUser(b, FALSE)
  \/ /\ Returned(pbCall, "serializeUser")
     /\ DeserializeUser(pbCall.res.val, TRUE)
  \/ \E b \in CollectionBufferInputs : DeserializeUserCollection(b, FALSE)
  \/ /\ Returned(pbCall, "serializeUserCollection")
     /\ DeserializeUserCollection(pbCall.res.val, TRUE)
  \/ \E now \in Timestamps : TestProtobuf(now)

\* the keys loaded, the ProtobufService just constructed
InitCodec == InitConstructed /\ InitProto /\ UserIdle /\ ServiceIdle

SpecProto == InitCodec /\ [][NextProto]_vars

-----------------------------------------------------------------------------
(* Inputs of the user requests *)

\* e-mail addresses: two valid ones, and text that is no address
EmailA   == Str(<<"a", "@", "b", ".", "c">>)
EmailD   == Str(<<"d", "@", "b", ".", "c">>)
EmailBad == Str(<<"a", "b">>)

\* request bodies of POST /api/users: two valid ones, then one without
\* e-mail, with a malformed e-mail, with an unknown role, an unknown status
CreateBodies ==
  {Obj([email |-> EmailA]),
   Obj([email |-> EmailD, role |-> Str(<<"admin">>)]),
   Obj([role |-> Str(<<"user">>), status |-> Str(<<"active">>)]),
   Obj([email |-> EmailBad]),
   Obj([email |-> EmailA, role |-> Str(<<"root">>)]),
   Obj([email |-> EmailA, status |-> Str(<<"gone">>)])}

\* request bodies of PUT /api/users/:id: a new e-mail, a new role, a
\* client-supplied e-mail hash, an unknown role, no property at all
UpdateBodies ==
  {Obj([email |-> EmailD]),
   Obj([role |-> Str(<<"moderator">>)]),
   Obj([emailHash |-> Str(<<"forged">>)]),
   Obj([role |-> Str(<<"root">>)]),
   Obj(<<>>)}

\* the :id parameter: every id the table may hand out, a well-formed UUID
\* it never hands out, and text that is no UUID
IdInputs == {Uuid(k) : k \in 0..MaxIds} \cup {Str(<<"x">>)}

\* the page and limit parameters of the query string; Undefined when the
\* parameter is not given
PageInputs ==
  {Undefined, Str(<<"1">>), Str(<<"2">>), Str(<<"0">>), Str(<<"-", "1">>),
   Str(<<"a", "b", "c">>), Str(<<"1", ".", "5">>)}
LimitInputs ==
  {Undefined, Str(<<"1">>), Str(<<"1", "0", "0">>), Str(<<"1", "0", "1">>),
   Str(<<"0">>), Str(<<"a", "b", "c">>)}

\* the requests arrive one after the other: a request is taken up when no
\* handler is suspended
NextUsers ==
  \/ usPending = <<>> /\ \E body \in CreateBodies : CreateUser(body)
  \/ \E i \in 1..Len(usPending) : UserCreate(i)
  \/ usPending = <<>> /\ \E userId \in IdInputs : GetUserById(userId)
  \/ usPending = <<>> /\ \E userId \in IdInputs, body \in UpdateBodies : UpdateUser(userId, body)
  \/ \E i \in 1..Len(usPending) : UpdateFindByEmail(i)
  \/ \E i \in 1..Len(usPending) : UserUpdate(i)
  \/ usPending = <<>> /\ \E userId \in IdInputs : DeleteUser(userId)
  \/ \E i \in 1..Len(usPending) : UserDelete(i)
  \/ usPending = <<>> /\ \E page \in PageInputs, limit \in LimitInputs : GetUsers(page, limit)
  \/ usPending = <<>> /\ \E order \in Orders(DOMAIN usersTable), now \in Timestamps :
                           ExportUsers(order, now)

\* the services constructed, the table empty, the server not started
InitUsers == InitConstructed /\ ProtoIdle /\ UserIdle /\ ServiceIdle

SpecUsers == InitUsers /\ [][NextUsers]_vars

\* requests that compete for the two e-mail addresses, served concurrently:
\* a request is taken up while up to MaxTasks handlers are suspended, and
\* the suspended handlers resume in any order
RaceBodies == {Obj([email |-> EmailA]), Obj([email |-> EmailD])}
RaceIds == {Uuid(k) : k \in 1..MaxIds}

NextInterleaved ==
  \/ \E body \in RaceBodies : CreateUser(body)
  \/ \E i \in 1..Len(usPending) : UserCreate(i)
  \/ \E userId \in RaceIds, body \in RaceBodies : UpdateUser(userId, body)
  \/ \E i \in 1..Len(usPending) : UpdateFindByEmail(i)
  \/ \E i \in 1..Len(usPending) : UserUpdate(i)

SpecInterleaved == InitUsers /\ [][NextInterleaved]_vars

\* the server process and the DatabaseService: startServer, calls of the
\* DatabaseService methods, connections and signals
NextServer ==
  \/ StartServer
  \/ Connect
  \/ TestConnection
  \/ DbGetStats
  \/ \E i \in 1..Len(dbPending), ok \in BOOLEAN : Acquire(i, ok)
  \/ \E i \in 1..Len(dbPending), ok \in BOOLEAN : Query(i, ok)
  \/ GetDatabase
  \/ Disconnect
  \/ \E i \in 1..Len(dbPending), ok \in BOOLEAN : PoolEnd(i, ok)
  \/ ConnOpen
  \/ ConnClose
  \/ GracefulShutdown
  \/ ServerClosed
  \/ ForceExit

SpecServer == InitUsers /\ [][NextServer]_vars

\* the server process alone: startServer, the health checks (which call
\* testConnection and getStats), connections and signals
NextProcess ==
  \/ StartServer
  \/ TestConnection
  \/ DbGetStats
  \/ \E i \in 1..Len(dbPending), ok \in BOOLEAN : Acquire(i, ok)
  \/ \E i \in 1..Len(dbPending), ok \in BOOLEAN : Query(i, ok)
  \/ ConnOpen
  \/ ConnClose
  \/ GracefulShutdown
  \/ ServerClosed
  \/ ForceExit

\* the event loop runs a callback that is due: the close callback once the
\* server has closed, the timer callback once the timer has expired
SpecServerLive ==
  /\ InitUsers /\ [][NextProcess]_vars
  /\ WF_vars(ServerClosed)
  /\ WF_vars(ForceExit)

-----------------------------------------------------------------------------
(* Properties of the CryptoService *)

NonEmptyString(x) == IsString(x) /\ x.v # <<>>

C2_NegativeVerification ==
  cryptoCall.op = "verifySignature" =>
    \A d2 \in HashInputs :
      (/\ d2 # cryptoCall.args[1]
       /\ signHash(d2).kind = "return"
       /\ cryptoCall.args[2] = signHash(d2).val)
      => cryptoCall.res = Return(Bool(FALSE))

C2_Witness ==
  /\ cryptoCall.op = "verifySignature"
  /\ NonEmptyString(cryptoCall.args[1])
  /\ IsKeyPair(privateKey, publicKey)
  /\ \E d2 \in HashInputs :
       /\ d2 # cryptoCall.args[1]
       /\ signHash(d2).kind = "return"
       /\ cryptoCall.args[2] = signHash(d2).val
  /\ cryptoCall.res = Return(Bool(FALSE))

\* the inputs on which the try block of verifySignature cannot succeed
InvalidVerifyInput(emailHash, signature) ==
  \/ ~Truthy(emailHash) \/ ~Truthy(signature)
  \/ ~IsString(emailHash) \/ ~IsString(signature)
  \/ ~Truthy(publicKey)
  \/ Len(signature.v) < 2 \/ signature.v[1] # "sig"

\* C3 - verifySignature never raises: every call returns a boolean, false
\* for a structurally invalid signature, an empty or missing digest or
\* signature and an unloaded public key; and the call changes no state.
C3_VerifyNeverRaises ==
  /\ [](cryptoCall.op = "verifySignature" =>
          /\ cryptoCall.res.kind = "return"
          /\ cryptoCall.res.val \in {Bool(TRUE), Bool(FALSE)}
          /\ InvalidVerifyInput(cryptoCall.args[1], cryptoCall.args[2])
               => cryptoCall.res.val = Bool(FALSE))
  /\ [][cryptoCall'.op = "verifySignature" => UNCHANGED keyState]_vars

C3_Witness ==
  /\ cryptoCall.op = "verifySignature"
  /\ Truthy(publicKey)
  /\ NonEmptyString(cryptoCall.args[1])
  /\ cryptoCall.args[2] = Num("5")
  /\ cryptoCall.res = Return(Bool(FALSE))

\* two strings that differ only by letter case or by surrounding whitespace:
\* each is a core between two runs of whitespace, and the cores agree
\* character by character up to case
EqualIgnoringCase(c, d) == c = d \/ {c, d} = {"a", "A"}

AllWhitespace(s, from, to) == \A i \in from..to : IsWhitespace(s[i])

DiffersOnlyByCaseOrPadding(s1, s2) ==
  \E i1 \in 1..Len(s1) + 1, i2 \in 1..Len(s2) + 1 :
    \E n \in 0..Len(s1) :
      /\ i1 + n - 1 <= Len(s1) /\ i2 + n - 1 <= Len(s2)
      /\ AllWhitespace(s1, 1, i1 - 1) /\ AllWhitespace(s1, i1 + n, Len(s1))
      /\ AllWhitespace(s2, 1, i2 - 1) /\ AllWhitespace(s2, i2 + n, Len(s2))
      /\ \A k \in 0..n - 1 : EqualIgnoringCase(s1[i1 + k], s2[i2 + k])

\* an e-mail string: a string with at least one character that is not whitespace
IsEmailString(x) == IsString(x) /\ \E i \in 1..Len(x.v) : ~IsWhitespace(x.v[i])

\* C4 - Digest determinism: two hashEmail calls whose e-mail strings differ
\* only by letter case or surrounding whitespace (the same string included)
\* both return a digest, and the same one.
C4_DigestDeterminism ==
  (/\ cryptoCall.op = "hashEmail" /\ hashPrev.op = "hashEmail"
   /\ IsEmailString(cryptoCall.args[1]) /\ IsEmailString(hashPrev.args[1])
   /\ DiffersOnlyByCaseOrPadding(cryptoCall.args[1].v, hashPrev.args[1].v))
  => /\ cryptoCall.res.kind = "return"
     /\ cryptoCall.res = hashPrev.res

C4_Witness ==
  /\ cryptoCall.op = "hashEmail" /\ hashPrev.op = "hashEmail"
  /\ cryptoCall.args[1] = Str(<<"A", " ">>)
  /\ hashPrev.args[1] = Str(<<" ", "a">>)
  /\ cryptoCall.res = hashPrev.res
  /\ cryptoCall.res.kind = "return"

\* C10 - Idempotent key load: a run of initializeKeys that follows a
\* successful run leaves the value of getPublicKey as it was, generates no
\* pair and leaves both key files as they were.
C10_IdempotentKeyLoad ==
  [][(keysInit = "ok" /\ initRuns' = initRuns + 1)
       => /\ getPublicKey' = getPublicKey
          /\ generated' = generated
          /\ privFile' = privFile /\ pubFile' = pubFile]_vars

C10_Witness ==
  /\ initRuns >= 2
  /\ keysInit = "ok"
  /\ cryptoCall.op = "initializeKeys"
  /\ cryptoCall.res.kind = "return"
  /\ getPublicKey.kind = "return"

\* C11 - when neither key file exists, key initialization generates a key
\* pair and writes both files before it completes; once it has completed,
\* the in-memory private and public keys equal the contents of the files.
C11_GenerateAndPersist ==
  /\ [][(/\ initRuns' = initRuns + 1
         /\ ~existsSync(privFile) /\ ~existsSync(pubFile)
         /\ keysInit' = "ok")
        => /\ generated' = generated + 1
           /\ IsKeyPair(privFile', pubFile')
           /\ privFile' = PrivatePem(generated')
           /\ privateKey' = privFile' /\ publicKey' = pubFile']_vars
  /\ [](keysInit = "ok" => (privateKey = privFile /\ publicKey = pubFile))

\* the first run found an empty directory or none and completed
C11_Witness ==
  /\ cryptoCall.op = "initializeKeys"
  /\ cryptoCall.res.kind = "return"
  /\ initRuns = 1 /\ generated = 1
  /\ privFile = PrivatePem(1) /\ pubFile = PublicPem(1)
  /\ privateKey = privFile /\ publicKey = pubFile

\* C12 - when exactly one of the two key files exists, key initialization
\* fails with an error: it generates no new key pair and does not overwrite
\* the file that exists.
C12_OneFileIsAnError ==
  [][(/\ initRuns' = initRuns + 1
      /\ existsSync(privFile) # existsSync(pubFile))
     => /\ keysInit' = "failed"
        /\ cryptoCall'.res.kind = "throw"
        /\ generated' = generated
        /\ privFile' = privFile /\ pubFile' = pubFile]_vars

\* C25 - the two key halves are set together: in every state a caller can
\* observe after key initialization has settled (succeeded or failed), the
\* in-memory private key and public key are either both unset or both set,
\* so signHash is usable exactly when getPublicKey is.
C25_KeyHalvesTogether ==
  keysInit \in {"ok", "failed"} => ((privateKey = Null) <=> (publicKey = Null))

KeyUnavailable ==
  {Throw("Private key not available for signing"), Throw("Public key not available")}

\* C13 - before key initialization has succeeded (the only run so far has
\* failed), signHash on a digest, processUserEmail on an e-mail and
\* getPublicKey each fail with a key-unavailable error and return no
\* signature or key; none of them generates keys or changes state.
C13_KeyUnavailable ==
  /\ []((/\ keysInit = "failed" /\ initRuns = 1
         /\ \/ cryptoCall.op = "getPublicKey"
            \/ /\ cryptoCall.op \in {"signHash", "processUserEmail"}
               /\ NonEmptyString(cryptoCall.args[1]))
        => cryptoCall.res \in KeyUnavailable)
  /\ [][(/\ keysInit = "failed"
         /\ cryptoCall'.op \in {"signHash", "processUserEmail", "getPublicKey"})
        => UNCHANGED keyState]_vars

\* empty, or not a string
InvalidEmailInput(x) == ~IsString(x) \/ x.v = <<>>

\* C14 - hashEmail fails with an invalid-input error, returns no digest and
\* changes no state for every input that is empty or is not a string.
C14_HashRejectsInvalid ==
  /\ []((cryptoCall.op = "hashEmail" /\ InvalidEmailInput(cryptoCall.args[1]))
        => cryptoCall.res = Throw("Email must be a non-empty string"))
  /\ [][cryptoCall'.op = "hashEmail" => UNCHANGED keyState]_vars

\* hashEmail was called with the empty string
C14_Witness ==
  /\ cryptoCall.op = "hashEmail"
  /\ cryptoCall.args = <<Str(<<>>)>>
  /\ cryptoCall.res.kind = "throw"

\* C15 - processUserEmail(email) hashes first and signs second: on success
\* it returns exactly (hashEmail(email), signHash(hashEmail(email))); if
\* hashing fails the error is the one of hashEmail, if signing fails the one
\* of signHash, and a failure carries no digest.
C15_HashThenSign ==
  cryptoCall.op = "processUserEmail"
  => LET email == cryptoCall.args[1]
         h == hashEmail(email)
     IN  IF h.kind = "throw" THEN cryptoCall.res = h
         ELSE IF signHash(h.val).kind = "throw"
         THEN cryptoCall.res = signHash(h.val)
         ELSE /\ cryptoCall.res.kind = "return"
              /\ cryptoCall.res.val.emailHash = h.val
              /\ cryptoCall.res.val.signature = signHash(h.val).val

\* processUserEmail hashed a valid e-mail while no private key was loaded
C15_Witness ==
  /\ cryptoCall.op = "processUserEmail"
  /\ NonEmptyString(cryptoCall.args[1])
  /\ ~Truthy(privateKey)
  /\ cryptoCall.res = Throw("Private key not available for signing")

CryptoMethods ==
  {"hashEmail", "signHash", "verifySignature", "processUserEmail",
   "getPublicKey", "getStats"}

\* C16 - after key initialization, no sequence of hashEmail, signHash,
\* verifySignature, processUserEmail, getPublicKey and getStats calls
\* changes the in-memory private key, the in-memory public key, or the key
\* files on storage.
C16_KeysImmutable ==
  [][(keysInit = "ok" /\ cryptoCall'.op \in CryptoMethods)
     => UNCHANGED <<privateKey, publicKey, privFile, pubFile>>]_vars

\* after a successful initialization a signature was issued by the loaded pair
C16_Witness ==
  /\ keysInit = "ok"
  /\ cryptoCall.op = "signHash"
  /\ cryptoCall.res.kind = "return"
  /\ IsKeyPair(privateKey, publicKey)
  /\ privateKey = privFile /\ publicKey = pubFile

-----------------------------------------------------------------------------
(* Properties of the ProtobufService *)

\* the property names a caller may hold a wire field under
Spellings(f) ==
  CASE f = "createdAt" -> {"created_at", "createdAt"}
    [] f = "emailHash" -> {"email_hash", "emailHash"}
    [] OTHER           -> {f}

\* a record: an object that holds each of the seven fields as a string under
\* one spelling, or not at all
IsRecord(r) ==
  /\ r.t = "object"
  /\ \A k \in DOMAIN r.props : IsString(r.props[k])
  /\ \A f \in UserFields : Cardinality(Spellings(f) \cap DOMAIN r.props) <= 1

\* the value a record holds for a wire field, the empty string if it holds none
FieldOf(r, f) ==
  LET held == Spellings(f) \cap DOMAIN r.props
  IN  IF held = {} THEN Str(<<>>) ELSE r.props[CHOOSE k \in held : TRUE]

\* C5 - Record round-trip: for any record r, deserializeUser(serializeUser(r))
\* is field-wise equal to r on the seven fields, with the empty string in
\* place of every field that was absent in r.
C5_RecordRoundTrip ==
  (/\ pbCall.op = "deserializeUser"
   /\ pbPrev.op = "serializeUser"
   /\ IsRecord(pbPrev.args[1]))
  => /\ pbCall.res.kind = "return"
     /\ \A f \in UserFields :
          Get(pbCall.res.val, f) = FieldOf(pbPrev.args[1], f)

\* a record that holds no e-mail hash has been encoded and decoded: the
\* decoded e-mail hash is the empty string, the other fields are as given
C5_Witness ==
  /\ pbCall.op = "deserializeUser"
  /\ pbCall.res.kind = "return"
  /\ pbPrev.op = "serializeUser"
  /\ IsRecord(pbPrev.args[1])
  /\ DOMAIN pbPrev.args[1].props = {"id", "email", "role", "status", "created_at", "signature"}
  /\ Get(pbCall.res.val, "emailHash") = Str(<<>>)
  /\ Get(pbCall.res.val, "createdAt") = Str(<<"2024-01-01T00:00:00Z">>)

\* an array whose elements are objects with string identifier and e-mail
IsRecordSequence(xs) ==
  /\ xs.t = "array"
  /\ \A i \in 1..Len(xs.items) :
       /\ xs.items[i].t = "object"
       /\ \A k \in {"id", "email"} \cap DOMAIN xs.items[i].props :
            IsString(xs.items[i].props[k])

\* C6 - Collection count: for any sequence of n records (n >= 0), decoding
\* the output of serializeUserCollection yields a total count equal to n and
\* a record list of length n in the input order; for the empty sequence the
\* encode succeeds and decoding yields an empty list with total count 0.
C6_CollectionCount ==
  (/\ pbCall.op = "deserializeUserCollection"
   /\ pbPrev.op = "serializeUserCollection"
   /\ IsRecordSequence(pbPrev.args[1]))
  => /\ pbCall.res.kind = "return"
     /\ LET xs == pbPrev.args[1].items
            out == pbCall.res.val
        IN  /\ Get(out, "totalCount") = Num(ToString(Len(xs)))
            /\ Len(Get(out, "users").items) = Len(xs)
            /\ \A i \in 1..Len(xs) :
                 \A f \in {"id", "email"} :
                   Get(Get(out, "users").items[i], f) = FieldOf(xs[i], f)

\* C7 - Collection re-encode law: for any encoded collection b,
\* serializeUserCollection applied to the records of
\* deserializeUserCollection(b) produces a collection equal to b in every
\* field (records, total count, algorithm names) except the export timestamp.
C7_ReencodeLaw ==
  (/\ pbCall.op = "serializeUserCollection"
   /\ pbPrev.op = "deserializeUserCollection"
   /\ pbPrev.res.kind = "return")
  => /\ pbCall.res.kind = "return"
     /\ \A f \in CollectionFields \ {"exportedAt"} :
          Get(DecodeCollection(pbCall.res.val.wire), f)
            = Get(DecodeCollection(pbPrev.args[1].wire), f)

\* an object whose properties other than the creation time are strings
HoldsStringsOrAnyCreationTime(r) ==
  /\ r.t = "object"
  /\ \A k \in DOMAIN r.props \ Spellings("createdAt") : IsString(r.props[k])

\* C8 - at encode time every one of the seven record fields is a string:
\* serializeUser and serializeUserCollection map a record object lacking any
\* subset of fields, or holding an unparseable creation time, to a message
\* in which each missing field is the empty string, never undefined or
\* omitted, and schema verification does not fail for such a record.
C8_FieldsAreStrings ==
  LET records ==
        IF pbCall.op = "serializeUser" THEN {pbCall.args[1]}
        ELSE IF pbCall.op = "serializeUserCollection" /\ pbCall.args[1].t = "array"
        THEN {pbCall.args[1].items[i] : i \in 1..Len(pbCall.args[1].items)}
        ELSE {}
  IN  (/\ records # {}
       /\ pbCall.res # Throw("schema load failed")
       /\ \A r \in records : HoldsStringsOrAnyCreationTime(r))
      => /\ pbCall.res.kind = "return"
         /\ \A r \in records : \A f \in UserFields :
              /\ f \in DOMAIN userMessage(r)
              /\ IsString(userMessage(r)[f])

DecodeOps == {"deserializeUser", "deserializeUserCollection"}

\* not a byte buffer, or bytes that do not parse as the message of the decoder
InvalidEncoding(op, x) ==
  \/ x.t # "buffer"
  \/ op = "deserializeUser" /\ x.kind # "user.User"
  \/ op = "deserializeUserCollection" /\ x.kind # "user.UserCollection"

\* C9 - decoding input that is not a valid encoding fails with an error
\* returned to the caller of deserializeUser / deserializeUserCollection; the
\* failure leaves the initialized flag and the schema handles unchanged, and
\* an encode or decode call made next on the loaded service succeeds.
C9_DecodeFailure ==
  /\ []((pbCall.op \in DecodeOps /\ InvalidEncoding(pbCall.op, pbCall.args[1]))
          => /\ pbCall.res.kind = "throw"
             /\ pbCall.res.val.t = "error")
  /\ [][(/\ pbCall'.op \in DecodeOps
         /\ ctorLoad' = ctorLoad /\ pbPending' = pbPending)
        => UNCHANGED schemaState]_vars
  /\ [][(/\ pbCall.op \in DecodeOps
         /\ pbCall.res.kind = "throw"
         /\ isInitialized
         /\ \/ pbCall'.op = "serializeUser" /\ pbCall'.args = <<Obj(RowStrings)>>
            \/ pbCall'.op = "deserializeUser"
                 /\ pbCall'.args = <<Buffer("user.User", EncodeUser(userMessage(RowSnake)))>>
            \/ pbCall'.op = "deserializeUserCollection"
                 /\ pbCall'.args = <<ConformingCollection(<<>>, Str(<<"ISO", "before">>))>>)
        => pbCall'.res.kind = "return"]_vars

\* rejected bytes were handed to deserializeUser on the loaded service
C9_Witness ==
  /\ pbCall.op = "deserializeUser"
  /\ pbCall.args = <<MalformedBuffer>>
  /\ pbCall.res.kind = "throw"
  /\ isInitialized

\* C17 - the schema is loaded once per process: whatever the interleaving
\* of the constructor-started load with serializeUser and
\* serializeUserCollection calls, initializeProtobuf runs at most once (and
\* so the two handles are assigned at most once).
C17_LoadedOnce == initCount <= 1

\* C26 - a codec operation issued after the ProtobufService object is
\* constructed but before the constructor-started schema load has finished
\* does not fail because of the unfinished load: on valid input it returns
\* its normal result.  (Stated for the two decoders, which complete in the
\* step in which they are called.)
C26_NoFailureBeforeLoad ==
  [][(/\ ctorLoad /\ ctorLoad'
      /\ pbPending' = pbPending
      /\ pbCall'.op \in DecodeOps
      /\ ~InvalidEncoding(pbCall'.op, pbCall'.args[1]))
     => pbCall'.res.kind = "return"]_vars

\* C27 - with the schema loaded, the self-test testProtobuf completes
\* without raising and reports success: true exactly when the id, email,
\* role and status obtained by deserializing the serialized test user equal
\* those of the test user.
C27_SelfTest ==
  [][(/\ isInitialized
      /\ pbCall'.op = "testProtobuf"
      /\ pbPending' = pbPending /\ ctorLoad' = ctorLoad)
     => \E now \in Timestamps :
          LET encoded == serializeUserAfterInit(testUser(now), TRUE)
              decoded == deserializeUser(encoded.val)
          IN  /\ encoded.kind = "return" /\ decoded.kind = "return"
              /\ pbCall'.res.kind = "return"
              /\ Get(pbCall'.res.val, "success")
                   = Bool(\A f \in {"id", "email", "role", "status"} :
                            Get(decoded.val, f) = Get(testUser(now), f))]_vars

-----------------------------------------------------------------------------
(* Properties of the UserService *)

\* C18 - authenticity invariant: after any sequence of createUser,
\* updateUser and deleteUser calls every stored user's email_hash equals
\* hashEmail of its current email and its signature verifies against that
\* hash; the two authenticity fields are written only on creation and on an
\* email change, and only with the output of processUserEmail.
C18_Authenticity ==
  /\ [](\A id \in DOMAIN usersTable :
          /\ hashEmail(usersTable[id].email) = Return(usersTable[id].email_hash)
          /\ verifySignature(usersTable[id].email_hash, usersTable[id].signature)
               = Return(Bool(TRUE)))
  /\ [][\A id \in DOMAIN usersTable' :
          LET created == id \notin DOMAIN usersTable
              p == processUserEmail(usersTable'[id].email)
          IN  (\/ created
               \/ usersTable'[id].email_hash # usersTable[id].email_hash
               \/ usersTable'[id].signature # usersTable[id].signature)
              => /\ created \/ usersTable'[id].email # usersTable[id].email
                 /\ p.kind = "return"
                 /\ usersTable'[id].email_hash = p.val.emailHash
                 /\ usersTable'[id].signature = p.val.signature]_vars

\* the e-mail is missing or malformed, or the role or the status is given
\* and is not one of the listed values
InvalidCreate(body) ==
  \/ ~Truthy(Get(body, "email"))
  \/ ~IsString(Get(body, "email"))
  \/ ~isValidEmail(Get(body, "email"))
  \/ /\ Get(body, "role") # Undefined
     /\ Get(body, "role") \notin {Str(<<"admin">>), Str(<<"user">>), Str(<<"moderator">>)}
  \/ /\ Get(body, "status") # Undefined
     /\ Get(body, "status") \notin {Str(<<"active">>), Str(<<"inactive">>)}

\* this step sends the response of a createUser request
AnswersCreate ==
  /\ usCall'.op = "createUser"
  /\ \/ usPending' = usPending
     \/ \E i \in 1..Len(usPending) :
          /\ usPending[i].op = "createUser"
          /\ usPending[i].args = usCall'.args
          /\ usPending' = RemoveAt(usPending, i)

\* C19 - a create request whose email is missing or malformed, whose role
\* is not one of admin/user/moderator, or whose status is not one of
\* active/inactive is answered with success: false (HTTP 400); no user is
\* stored and the email is neither hashed nor signed.
C19_InvalidCreateRejected ==
  /\ []((usCall.op = "createUser" /\ InvalidCreate(usCall.args[1]))
        => (~usCall.res.success /\ usCall.http = 400))
  /\ [](\A i \in 1..Len(usPending) :
          usPending[i].op = "createUser" => ~InvalidCreate(usPending[i].args[1]))
  /\ [][(AnswersCreate /\ InvalidCreate(usCall'.args[1]))
        => (usersTable' = usersTable /\ cryptoCall' = cryptoCall)]_vars

\* a create request with an unknown role was answered while a user was stored
C19_Witness ==
  /\ usCall.op = "createUser"
  /\ usCall.args = <<Obj([email |-> EmailA, role |-> Str(<<"root">>)])>>
  /\ usCall.http = 400
  /\ DOMAIN usersTable # {}

\* update data the controller and validateUserData accept
ValidUpdate(body) == DOMAIN body.props # {} /\ validateUserData(body, TRUE) = <<>>

\* C20 - getUserById, updateUser (with valid update data) and deleteUser on
\* an id that matches no stored user, including an id that is not a
\* well-formed UUID, return the error 'User not found' (HTTP 404) and leave
\* every stored user unchanged.
C20_UserNotFound ==
  /\ []((/\ usCall.op \in {"getUserById", "updateUser", "deleteUser"}
         /\ usCall.args[1] \in {Uuid(0), Str(<<"x">>)}
         /\ usCall.op = "updateUser" => ValidUpdate(usCall.args[2]))
        => (/\ usCall.res = [success |-> FALSE, error |-> <<"User not found">>]
            /\ usCall.http = 404))
  /\ [][(/\ usPending' = usPending
         /\ usCall'.op \in {"getUserById", "updateUser", "deleteUser"}
         /\ Truthy(usCall'.args[1])
         /\ usCall'.args[1] \notin DOMAIN usersTable
         /\ usCall'.op = "updateUser" => ValidUpdate(usCall'.args[2]))
        => (/\ usCall'.res = [success |-> FALSE, error |-> <<"User not found">>]
            /\ usCall'.http = 404
            /\ usersTable' = usersTable)]_vars

\* a delete request for an id that is no UUID was answered while a user was
\* stored
C20_Witness ==
  /\ usCall.op = "deleteUser"
  /\ usCall.args = <<Str(<<"x">>)>>
  /\ usCall.http = 404
  /\ DOMAIN usersTable # {}

\* the text is a decimal integer: digits only, at least one
IsIntegerText(x) == x.v # <<>> /\ \A i \in 1..Len(x.v) : x.v[i] \in DigitChars

\* a page parameter that is an integer >= 1, a limit parameter that is an
\* integer in 1..100
ValidPage(x) == IsIntegerText(x) /\ DigitsValue(x.v) >= 1
ValidLimit(x) == IsIntegerText(x) /\ DigitsValue(x.v) >= 1 /\ DigitsValue(x.v) <= 100

\* C21 - GET /api/users answers HTTP 400 and does not query the store for
\* every page parameter that is not an integer >= 1 ('Invalid page number')
\* and for every limit parameter that is not an integer in 1..100 ('Invalid
\* limit'), including parameters that do not parse as a number.
C21_InvalidPaging ==
  (/\ usCall.op = "getUsers"
   /\ \/ usCall.args[1] # Undefined /\ ~ValidPage(usCall.args[1])
      \/ usCall.args[2] # Undefined /\ ~ValidLimit(usCall.args[2]))
  => /\ usCall.http = 400
     /\ usCall.queries = 0
     /\ ~usCall.res.success
     /\ usCall.res.error =
          IF usCall.args[1] # Undefined /\ ~ValidPage(usCall.args[1])
          THEN <<"Invalid page number">> ELSE <<"Invalid limit">>

\* the decoded record holds the values of the row
DecodedFrom(decoded, row) ==
  /\ \A f \in {"id", "email", "role", "status", "signature"} :
       Get(decoded, f) = Get(row, f)
  /\ Get(decoded, "emailHash") = Get(row, "email_hash")
  /\ Get(decoded, "createdAt") = toIsoString(Get(row, "created_at"))

\* C22 - exportUsers on a store holding n users (n >= 0) returns success
\* with userCount = n and a byte buffer that deserializeUserCollection
\* decodes to exactly those n users, in the order findAll returned them; the
\* export changes no stored user.
C22_ExportRoundTrip ==
  [][(usCall'.op = "exportUsers" /\ usPending' = usPending)
     => LET n == Cardinality(DOMAIN usersTable)
            found == usCall'.found.items
            decoded == deserializeUserCollection(usCall'.res.data)
        IN  /\ usCall'.res.success /\ usCall'.http = 200
            /\ usCall'.res.userCount = n
            /\ Len(found) = n
            /\ {found[i] : i \in 1..n} = {Obj(usersTable[id]) : id \in DOMAIN usersTable}
            /\ decoded.kind = "return"
            /\ Len(Get(decoded.val, "users").items) = n
            /\ \A i \in 1..n : DecodedFrom(Get(decoded.val, "users").items[i], found[i])
            /\ usersTable' = usersTable]_vars

\* two stored users were exported, the user created last coming first
C22_Witness ==
  /\ usCall.op = "exportUsers"
  /\ usCall.res.userCount = 2
  /\ usCall.found.items[1].props.id = Uuid(2)

\* the e-mail address a suspended createUser or updateUser call is about to
\* store, and the user it stores it for (Null for a user to be created)
TargetEmail(t) == Get(t.args[Len(t.args)], "email")
TargetUser(t) == IF t.op = "updateUser" THEN t.args[1] ELSE Null

\* C24 - email uniqueness under interleaving: no interleaving of concurrent
\* createUser and email-changing updateUser calls leaves two stored users
\* with the same email; of two calls competing for the same email at most
\* one reports success and the other returns success: false without changing
\* any record.
C24_EmailUnique ==
  /\ [](\A id1, id2 \in DOMAIN usersTable :
          usersTable[id1].email = usersTable[id2].email => id1 = id2)
  /\ [][\A i \in 1..Len(usPending) :
          (/\ usPending' = RemoveAt(usPending, i)
           /\ usPending[i].op \in {"createUser", "updateUser"}
           /\ usCall'.op = usPending[i].op /\ usCall'.args = usPending[i].args
           /\ \E id \in DOMAIN usersTable \ {TargetUser(usPending[i])} :
                usersTable[id].email = TargetEmail(usPending[i]))
          => (~usCall'.res.success /\ usersTable' = usersTable)]_vars

\* two createUser calls for one address were in flight together; the first
\* stored its user and the second was refused by the store
C24_Witness ==
  /\ usCall.op = "createUser"
  /\ usCall.res = [success |-> FALSE,
                   error |-> <<"duplicate key value violates unique constraint">>]
  /\ \E id \in DOMAIN usersTable : usersTable[id].email = Get(usCall.args[1], "email")

-----------------------------------------------------------------------------
(* Properties of the DatabaseService and of the server process *)

\* this step is a getDatabase call: it changes nothing but the record of
\* the last call
GetDatabaseStep ==
  /\ dbCall'.op = "getDatabase"
  /\ UNCHANGED <<pool, isConnected, pools, checkedOut, dbPending, lastSettled, serverVars>>

\* C23 - the database service hands out its pool only while connected:
\* getDatabase returns the pool exactly in the states reached after a
\* connect() that completed successfully and before any later disconnect()
\* completed; in every other state (never connected, connect failed,
\* disconnected) it throws 'Database not connected. Call connect() first.';
\* isConnected = true implies the pool is set.
C23_PoolOnlyWhileConnected ==
  /\ [][GetDatabaseStep
        => dbCall'.res = IF lastSettled = "connect"
                         THEN Return(pool)
                         ELSE Throw("Database not connected. Call connect() first.")]_vars
  /\ [](isConnected => pool # Null)

\* getDatabase threw once a disconnect had completed, the pool still set
C23_Witness ==
  /\ dbCall.op = "getDatabase"
  /\ dbCall.res.kind = "throw"
  /\ lastSettled = "disconnect"
  /\ pool # Null

\* C28 - no pool client is leaked: every client that connect, testConnection
\* or getStats acquires from the pool is released before that operation
\* completes, on the failure paths (table creation or query error) as well
\* as on success, so after any sequence of these operations the number of
\* checked-out clients is 0.
C28_NoClientLeak ==
  (\A i \in 1..Len(dbPending) : dbPending[i].pc # "query") => checkedOut = 0

\* C29 - startup ordering: the HTTP server starts listening only after
\* databaseService.connect() has completed successfully; if connect fails,
\* the process exits with code 1 and never listens.
C29_StartupOrdering ==
  /\ [][(server # "listening" /\ server' = "listening")
        => /\ server = "starting"
           /\ dbCall' = [op |-> "connect", caller |-> "startServer", res |-> Return(pool)]
           /\ isConnected']_vars
  /\ [][(/\ dbCall'.op = "connect" /\ dbCall'.caller = "startServer"
         /\ dbCall'.res.kind = "throw" /\ server = "starting")
        => (server' = "exited" /\ exitCode' = 1)]_vars
  /\ [][server = "exited" => (server' = "exited" /\ exitCode' = exitCode)]_vars
  /\ [](server \in {"listening", "closing"} => lastSettled # "none")

\* the connect() of startServer failed and the process has exited
C29_Witness ==
  /\ server = "exited" /\ exitCode = 1
  /\ dbCall.op = "connect" /\ dbCall.caller = "startServer"
  /\ dbCall.res.kind = "throw"
  /\ timers = 0

\* C30 - shutdown: after SIGTERM or SIGINT is received by a started server,
\* the process eventually exits, with code 0 if the server close completes
\* before the 10-second force timer fires and with code 1 otherwise; it
\* never keeps running indefinitely, also when a second signal arrives
\* during the shutdown.
C30_Shutdown ==
  /\ (server = "closing") ~> (server = "exited")
  /\ [][(server = "closing" /\ server' = "exited")
        => \/ exitCode' = 0 /\ openConns = 0
           \/ exitCode' = 1 /\ timers > 0]_vars

\* a second signal arrived during the shutdown and the timer forced the exit
\* while a connection was open
C30_Witness ==
  /\ server = "exited" /\ exitCode = 1
  /\ timers = 2
  /\ openConns = 1

=============================================================================
